---- MODULE Spec2Model ----
(***************************************************************************)
(* Clash Master collector: the ingestion pipeline (Collector Session,      *)
(* Delta Computer, Realtime Cache, Flusher, Store) and the HTTP query API  *)
(* of the collector's APIServer.                                           *)
(*                                                                         *)
(* The API handlers are translated from the APIServer source.  The Delta   *)
(* Computer, the Session, the Supervisor, the Realtime Cache, the Flusher  *)
(* and the Store live in modules of the collector that the API only        *)
(* imports (./db.js, ./realtime.js); they are modelled from their          *)
(* contracts in sections 4.1-4.6 of the specification.                     *)
(***************************************************************************)
EXTENDS Integers, Sequences, FiniteSets, TLC

VARIABLES
    \* ---- Collector Session / Delta Computer (one backend) ----
    lastSeen,     \* Delta Computer state: id -> baseline counters
    hist,         \* frames processed so far: snapshot, emitted events, session
    agg,          \* bytes and connections recorded into the aggregates
    clock,        \* minutes elapsed, advanced by each frame
    listening,    \* backends.listening of the backend (Store)
    running,      \* the Supervisor holds a Session for the backend
    sess,         \* number of Sessions started so far
    \* ---- Realtime Cache, Flusher, Store (bytes per backend and tuple) ----
    cache,        \* Realtime Cache: pending bytes
    store,        \* Store: persisted aggregate bytes
    flusher,      \* Flusher task: idle, or the drained batch it is submitting
    phase,        \* process lifecycle: running, stopped (Sessions stopped), closed
    finalDone,    \* backends drained by the final flush
    committed,    \* bytes of all deltas applied, per backend
    sinceClear,   \* bytes of the deltas applied since the last data clear
    removed,      \* bytes of rows discarded after a fatal Store error or
                  \* deleted by a data clear
    finalReturned,\* tuples whose rows the final flush returned to the cache
    applies,      \* number of deltas applied
    \* ---- Query API ----
    db,           \* Store as the handlers read it: traffic rows and the active backend
    realtimeStore,\* Realtime Cache as the handlers read it: pending traffic
    env,          \* REALTIME_RANGE_END_TOLERANCE_MS of the process
    request,      \* the request being handled
    reply,        \* what its handler did
    \* ---- Backend management and maintenance API ----
    backends,     \* Store: the backends table
    nextId,       \* Store: the id the next created backend gets
    sessions,     \* Supervisor: ids of the backends with a running Session
    retention,    \* Store: the RetentionConfig row
    \* ---- connection test and the dashboard's React components ----
    probe,        \* a backend connection test in progress
    proxyView,    \* InteractiveProxyStats
    listTable,    \* DomainsTable / IPsTable: the paginated list
    drill,        \* the drill-down of an expanded row
    pager         \* DomainStatsTable: client-side pagination

deltaVars == <<lastSeen, hist, agg, clock, listening, running, sess>>
flushVars == <<cache, store, flusher, phase, finalDone, committed, sinceClear,
               removed, finalReturned, applies>>
queryVars == <<db, realtimeStore, env, request, reply>>
adminVars == <<backends, nextId, sessions, retention>>
webVars == <<probe, proxyView, listTable, drill, pager>>
vars == <<deltaVars, flushVars, queryVars, adminVars, webVars>>

-----------------------------------------------------------------------------
(* Bounds of the model *)

MaxFrames == 3
MaxSessions == 2
MaxApplies == 2
MaxCreated == 2
MaxFetches == 3
MaxDrillFetches == 6
MaxDetailRequests == 6
MaxPage == 5
CleanupDays == {-1, 0, 7}

Max(a, b) == IF a >= b THEN a ELSE b

-----------------------------------------------------------------------------
(* Delta Computer (section 4.3)                                            *)

ConnIds == {"c1"}
Ups == {0, 50, 80, 100}
Downs == {0, 1000}
Gaps == {1, 31}
StaleMinutes == 30

\* one entry of an upstream snapshot: the connection is open with counters,
\* or the snapshot does not contain the id
Closed == [open |-> FALSE, upload |-> 0, download |-> 0]
Open(u, d) == [open |-> TRUE, upload |-> u, download |-> d]
Snapshots == [ConnIds -> {Closed} \cup {Open(u, d) : u \in Ups, d \in Downs}]

Unknown == [known |-> FALSE, upload |-> 0, download |-> 0, at |-> 0]
Baseline(c, t) == [known |-> TRUE, upload |-> c.upload, download |-> c.download, at |-> t]

NoEvent == [emitted |-> FALSE, uploadDelta |-> 0, downloadDelta |-> 0,
            isNew |-> FALSE, isClosed |-> FALSE]
Event(du, dd, new, closed) == [emitted |-> TRUE, uploadDelta |-> du, downloadDelta |-> dd,
                               isNew |-> new, isClosed |-> closed]

\* DeltaOf with a new id taken as a baseline that emits nothing of its counters
DeltaOf_NewAsZero(prev, c) ==
    IF c.open
    THEN IF ~prev.known
         THEN Event(0, 0, TRUE, FALSE)
         ELSE LET du == c.upload - prev.upload
                  dd == c.download - prev.download
              IN  IF du < 0 \/ dd < 0
                  THEN Event(0, 0, FALSE, FALSE)
                  ELSE Event(du, dd, FALSE, FALSE)
    ELSE IF prev.known
         THEN Event(0, 0, FALSE, TRUE)
         ELSE NoEvent

\* DeltaOf without the counter-reset clamp
DeltaOf_NoClamp(prev, c) ==
    IF c.open
    THEN IF ~prev.known
         THEN Event(c.upload, c.download, TRUE, FALSE)
         ELSE Event(c.upload - prev.upload, c.download - prev.download, FALSE, FALSE)
    ELSE IF prev.known
         THEN Event(0, 0, FALSE, TRUE)
         ELSE NoEvent

\* steps 1 and 2 for one id: the event emitted for snapshot entry c, given the
\* id's baseline prev
DeltaOf(prev, c) ==
    IF c.open
    THEN IF ~prev.known
         THEN Event(c.upload, c.download, TRUE, FALSE)
         ELSE LET du == c.upload - prev.upload
                  dd == c.download - prev.download
              IN  IF du < 0 \/ dd < 0
                  THEN Event(0, 0, FALSE, FALSE)
                  ELSE Event(du, dd, FALSE, FALSE)
    ELSE IF prev.known
         THEN Event(0, 0, FALSE, TRUE)
         ELSE NoEvent

\* NextBaseline that keeps the counters of the first sight of a known id
NextBaseline_KeepFirst(prev, c, t) ==
    IF c.open
    THEN IF prev.known THEN [prev EXCEPT !.at = t] ELSE Baseline(c, t)
    ELSE Unknown

\* steps 1 and 2 for one id: the baseline kept after snapshot entry c at time t
NextBaseline(prev, c, t) ==
    IF c.open THEN Baseline(c, t) ELSE Unknown

\* step 3: drop any id whose last activity is older than the threshold
StaleSweep(ls, t) ==
    [id \in ConnIds |->
        IF ls[id].known /\ t - ls[id].at > StaleMinutes THEN Unknown ELSE ls[id]]

ProcessSnapshot(ls, snap, t) ==
    StaleSweep([id \in ConnIds |-> NextBaseline(ls[id], snap[id], t)], t)

EmitAll(ls, snap) == [id \in ConnIds |-> DeltaOf(ls[id], snap[id])]

-----------------------------------------------------------------------------
(* Collector Session, per frame (section 4.4)                              *)

\* step 3: only these events reach the Realtime Cache
ShouldApply(ev) ==
    ev.emitted /\ (ev.uploadDelta > 0 \/ ev.downloadDelta > 0 \/ ev.isNew \/ ev.isClosed)

ApplyEvent(a, ev) ==
    IF ShouldApply(ev)
    THEN [upload |-> a.upload + ev.uploadDelta,
          download |-> a.download + ev.downloadDelta,
          connections |-> a.connections + (IF ev.isNew THEN 1 ELSE 0)]
    ELSE a

ZeroAgg == [upload |-> 0, download |-> 0, connections |-> 0]

Frame(snap, gap) ==
    /\ running
    /\ Len(hist) < MaxFrames
    /\ LET t == clock + gap
           out == EmitAll(lastSeen, snap)
       IN  /\ clock' = t
           /\ lastSeen' = ProcessSnapshot(lastSeen, snap, t)
           /\ hist' = Append(hist, [snap |-> snap, out |-> out, sess |-> sess])
           /\ agg' = [id \in ConnIds |-> ApplyEvent(agg[id], out[id])]
    /\ UNCHANGED <<listening, running, sess>>
    /\ UNCHANGED <<webVars, flushVars, queryVars, adminVars>>

-----------------------------------------------------------------------------
(* Listening toggle and Supervisor (section 4.5)                           *)

\* POST /api/backends/:id/listening for the stored backend
SetBackendListening(v) ==
    /\ listening' = v
    /\ UNCHANGED <<lastSeen, hist, agg, clock, running, sess>>
    /\ UNCHANGED <<webVars, flushVars, queryVars, adminVars>>

\* sync(): start a Session (fresh Delta Computer state) for a listening
\* backend that has none, stop the Session of a backend no longer listening
SupervisorSync ==
    \/ /\ listening /\ ~running
       /\ sess < MaxSessions
       /\ running' = TRUE
       /\ sess' = sess + 1
       /\ lastSeen' = [id \in ConnIds |-> Unknown]
       /\ UNCHANGED <<hist, agg, clock, listening>>
       /\ UNCHANGED <<webVars, flushVars, queryVars, adminVars>>
    \/ /\ ~listening /\ running
       /\ running' = FALSE
       /\ lastSeen' = [id \in ConnIds |-> Unknown]
       /\ UNCHANGED <<hist, agg, clock, listening, sess>>
       /\ UNCHANGED <<webVars, flushVars, queryVars, adminVars>>

DeltaStart ==
    /\ lastSeen = [id \in ConnIds |-> Unknown]
    /\ hist = <<>>
    /\ agg = [id \in ConnIds |-> ZeroAgg]
    /\ clock = 0
    /\ listening = TRUE
    /\ running = FALSE
    /\ sess = 0

-----------------------------------------------------------------------------
(* Realtime Cache, Flusher and Store (sections 4.1, 4.2, 4.6), in bytes    *)
(* per (backend, dimension) tuple of one hour bucket                       *)

Backends == {1, 2}
NoBackend == 0
DimOrder == <<"hourly", "domain">>
Dims == {DimOrder[i] : i \in 1..Len(DimOrder)}
DeltaBytes == {250}
MaxAttempts == 5

ZeroDims == [dim \in Dims |-> 0]
ZeroAll == [b \in Backends |-> ZeroDims]
Idle == [pc |-> "idle", backend |-> NoBackend, batch |-> ZeroDims, di |-> 1,
         attempts |-> 0, final |-> FALSE]

\* RealtimeCache.apply, called once per dimension of the delta's identity
CacheApply(c, bytes) == [dim \in Dims |-> c[dim] + bytes]

\* drain that snapshots the pending deltas and leaves them in the cache
DrainedCache_Keep(c) == c

\* RealtimeCache.drain: what is left pending for the drained backend
DrainedCache(c) == ZeroDims

\* RealtimeCache.clearBackend
ClearedCache(c) == ZeroDims

\* re-apply that drops the rows of the failed transaction
ReApply_Dropped(c, dim, bytes) == c

\* Flusher step 4: the failed dimension's rows go back into the cache
ReApply(c, dim, bytes) == [c EXCEPT ![dim] = @ + bytes]

\* the UPSERT of one dimension's rows: upload = upload + ?
Upsert(s, dim, bytes) == [s EXCEPT ![dim] = @ + bytes]

\* a Session records one delta of backend b
Apply(b, bytes) ==
    /\ phase = "running"
    /\ applies < MaxApplies
    /\ applies' = applies + 1
    /\ cache' = [cache EXCEPT ![b] = CacheApply(cache[b], bytes)]
    /\ committed' = [committed EXCEPT ![b] = @ + bytes]
    /\ sinceClear' = [sinceClear EXCEPT ![b] = @ + bytes]
    /\ UNCHANGED <<store, flusher, phase, finalDone, removed, finalReturned>>
    /\ UNCHANGED <<webVars, deltaVars, queryVars, adminVars>>

\* Flusher step 1: drain(b) of a backend with a non-empty cache; after the
\* shutdown signal every backend is drained once more
Drain(b) ==
    /\ flusher.pc = "idle"
    /\ phase # "closed"
    /\ cache[b] # ZeroDims
    /\ phase = "stopped" => b \notin finalDone
    /\ flusher' = [pc |-> "tx", backend |-> b, batch |-> cache[b], di |-> 1,
                   attempts |-> 0, final |-> (phase = "stopped")]
    /\ cache' = [cache EXCEPT ![b] = DrainedCache(cache[b])]
    /\ finalDone' = IF phase = "stopped" THEN finalDone \cup {b} ELSE finalDone
    /\ UNCHANGED <<store, phase, committed, sinceClear, removed, finalReturned, applies>>
    /\ UNCHANGED <<webVars, deltaVars, queryVars, adminVars>>

\* the Flusher moves on to the next dimension of the batch, or is done
NextDimension(f) ==
    IF f.di < Len(DimOrder)
    THEN [f EXCEPT !.di = @ + 1, !.attempts = 0]
    ELSE Idle

CurrentDim == DimOrder[flusher.di]

\* Flusher steps 2-3: the transaction of the current dimension commits
TxCommit ==
    /\ flusher.pc = "tx"
    /\ store' = [store EXCEPT ![flusher.backend] =
                    Upsert(@, CurrentDim, flusher.batch[CurrentDim])]
    /\ flusher' = NextDimension(flusher)
    /\ UNCHANGED <<cache, phase, finalDone, committed, sinceClear, removed,
                   finalReturned, applies>>
    /\ UNCHANGED <<webVars, deltaVars, queryVars, adminVars>>

\* Flusher step 4: busy/locked aborts the transaction; it is retried, and
\* after the last attempt the dimension's rows are re-applied to the cache
TxBusy ==
    /\ flusher.pc = "tx"
    /\ IF flusher.attempts + 1 < MaxAttempts
       THEN /\ flusher' = [flusher EXCEPT !.attempts = @ + 1]
            /\ UNCHANGED <<cache, finalReturned>>
       ELSE /\ cache' = [cache EXCEPT ![flusher.backend] =
                            ReApply(@, CurrentDim, flusher.batch[CurrentDim])]
            /\ finalReturned' = IF flusher.final
                                 THEN finalReturned \cup {<<flusher.backend, CurrentDim>>}
                                 ELSE finalReturned
            /\ flusher' = NextDimension(flusher)
    /\ UNCHANGED <<store, phase, finalDone, committed, sinceClear, removed, applies>>
    /\ UNCHANGED <<webVars, deltaVars, queryVars, adminVars>>

\* a constraint (integrity) error is fatal: the row is discarded
TxConstraint ==
    /\ flusher.pc = "tx"
    /\ removed' = [removed EXCEPT ![flusher.backend][CurrentDim] =
                        @ + flusher.batch[CurrentDim]]
    /\ flusher' = NextDimension(flusher)
    /\ UNCHANGED <<cache, store, phase, finalDone, committed, sinceClear,
                   finalReturned, applies>>
    /\ UNCHANGED <<webVars, deltaVars, queryVars, adminVars>>

\* POST /api/db/cleanup {days, backendId?}
CleanupTargets(backendId) == IF backendId = NoBackend THEN Backends ELSE {backendId}

Cleanup(days, backendId) ==
    /\ phase # "closed"
    /\ IF days < 0
       THEN UNCHANGED <<cache, store, sinceClear, removed>>
       ELSE IF days = 0
            THEN LET T == CleanupTargets(backendId) IN
                 /\ store' = [b \in Backends |-> IF b \in T THEN ZeroDims ELSE store[b]]
                 /\ cache' = [b \in Backends |->
                                IF b \in T THEN ClearedCache(cache[b]) ELSE cache[b]]
                 /\ removed' = [b \in Backends |-> [dim \in Dims |->
                                IF b \in T
                                THEN removed[b][dim] + store[b][dim] + cache[b][dim]
                                ELSE removed[b][dim]]]
                 /\ sinceClear' = [b \in Backends |-> IF b \in T THEN 0 ELSE sinceClear[b]]
            ELSE UNCHANGED <<cache, store, sinceClear, removed>>
    /\ UNCHANGED <<flusher, phase, finalDone, committed, finalReturned, applies>>
    /\ UNCHANGED <<webVars, deltaVars, queryVars, adminVars>>

\* POST /api/backends/:id/clear-data
ClearData(b) ==
    /\ phase # "closed"
    /\ store' = [store EXCEPT ![b] = ZeroDims]
    /\ removed' = [removed EXCEPT ![b] = [dim \in Dims |-> @[dim] + store[b][dim]]]
    /\ sinceClear' = [sinceClear EXCEPT ![b] = 0]
    /\ UNCHANGED <<cache, flusher, phase, finalDone, committed, finalReturned, applies>>
    /\ UNCHANGED <<webVars, deltaVars, queryVars, adminVars>>

\* shutdown signal: the Supervisor stops all Sessions
StopSessions ==
    /\ phase = "running"
    /\ phase' = "stopped"
    /\ UNCHANGED <<cache, store, flusher, finalDone, committed, sinceClear, removed,
                   finalReturned, applies>>
    /\ UNCHANGED <<webVars, deltaVars, queryVars, adminVars>>

\* exit without waiting for the final flush
FinalFlushDone_Skip == TRUE

\* the final flush has drained every backend that had pending deltas
FinalFlushDone ==
    /\ flusher.pc = "idle"
    /\ \A b \in Backends : b \in finalDone \/ cache[b] = ZeroDims

\* the final flush has drained every backend and settled: the Store is closed
CloseStore ==
    /\ phase = "stopped"
    /\ FinalFlushDone
    /\ phase' = "closed"
    /\ UNCHANGED <<cache, store, flusher, finalDone, committed, sinceClear, removed,
                   finalReturned, applies>>
    /\ UNCHANGED <<webVars, deltaVars, queryVars, adminVars>>

FlushStart ==
    /\ cache = ZeroAll
    /\ store = ZeroAll
    /\ flusher = Idle
    /\ phase = "running"
    /\ finalDone = {}
    /\ committed = [b \in Backends |-> 0]
    /\ sinceClear = [b \in Backends |-> 0]
    /\ removed = ZeroAll
    /\ finalReturned = {}
    /\ applies = 0

-----------------------------------------------------------------------------
(* Query API: the Store and the Realtime Cache as the handlers read them   *)

\* instants in ms; the Store's rows sit in the current and the previous hour
HourMs == 3600000
NowMs == 9000000
HourOld == NowMs - (NowMs % HourMs) - HourMs
HourNow == NowMs - (NowMs % HourMs)

\* the connections whose traffic the aggregates hold, by identity
Identities == {"i1", "i2"}
IdentityOrder == <<"i1", "i2">>
HostOf == [i \in Identities |-> IF i = "i1" THEN "a.example" ELSE "b.example"]
IpOf == [i \in Identities |-> IF i = "i1" THEN "1.1.1.1" ELSE "2.2.2.2"]
ChainOf == [i \in Identities |-> "P > R"]
RuleOf == [i \in Identities |-> "R"]
DeviceOf == [i \in Identities |-> "192.168.1.2"]
CountryOf == [i \in Identities |-> IF i = "i1" THEN "US" ELSE "CN"]
\* time bucket of the identity's persisted rows
BucketOf == [i \in Identities |-> IF i = "i1" THEN HourNow ELSE HourOld]

ZeroTraffic == [upload |-> 0, download |-> 0, connections |-> 0]
StoreTraffic == {ZeroTraffic, [upload |-> 100, download |-> 1000, connections |-> 2]}
CacheTraffic == {ZeroTraffic, [upload |-> 50, download |-> 250, connections |-> 1]}

AddTraffic(a, b) == [upload |-> a.upload + b.upload,
                     download |-> a.download + b.download,
                     connections |-> a.connections + b.connections]

RECURSIVE SumTraffic(_, _)
SumTraffic(S, f) ==
    IF S = {} THEN ZeroTraffic
    ELSE LET i == CHOOSE x \in S : TRUE
         IN  AddTraffic(f[i], SumTraffic(S \ {i}, f))

Row(k, t) == [key |-> k, upload |-> t.upload, download |-> t.download,
              connections |-> t.connections]
RowTraffic(r) == [upload |-> r.upload, download |-> r.download,
                  connections |-> r.connections]

Take(n, seq) == IF Len(seq) <= n THEN seq ELSE SubSeq(seq, 1, n)

\* position of the first row with a smaller download, or past the end
RECURSIVE InsertAt(_, _, _)
InsertAt(r, seq, i) ==
    IF i > Len(seq) \/ seq[i].download < r.download
    THEN SubSeq(seq, 1, i - 1) \o <<r>> \o SubSeq(seq, i, Len(seq))
    ELSE InsertAt(r, seq, i + 1)

\* ORDER BY download DESC
RECURSIVE SortRows(_)
SortRows(seq) ==
    IF seq = <<>> THEN <<>>
    ELSE InsertAt(Head(seq), SortRows(Tail(seq)), 1)

KeysOf(seq) == {seq[i].key : i \in 1..Len(seq)}
RowOf(seq, k) == seq[CHOOSE i \in 1..Len(seq) : seq[i].key = k]
\* the traffic a list shows for a key, nothing when the key is not listed
Shown(seq, k) == IF k \in KeysOf(seq) THEN RowTraffic(RowOf(seq, k)) ELSE ZeroTraffic

\* rows of one dimension, keyed by keyOf, from per-identity traffic f: one row
\* per key that has traffic, in identity order
RECURSIVE GroupRows(_, _, _)
GroupRows(order, keyOf, f) ==
    IF order = <<>> THEN <<>>
    ELSE LET i == Head(order)
             rest == GroupRows(Tail(order), keyOf, f)
         IN  IF f[i] = ZeroTraffic THEN rest
             ELSE IF keyOf[i] \in KeysOf(rest)
                  THEN [j \in 1..Len(rest) |->
                          IF rest[j].key = keyOf[i]
                          THEN Row(keyOf[i], AddTraffic(RowTraffic(rest[j]), f[i]))
                          ELSE rest[j]]
                  ELSE <<Row(keyOf[i], f[i])>> \o rest

\* ---- Store reads (section 4.1) ----

\* a time range as getTimeRange returns it
\* an ISO-8601 UTC string, held as the instant it writes
ToISOString(ms) == [iso |-> ms]
Undefined == [iso |-> -1]
Unwindowed == [active |-> FALSE, start |-> Undefined, end |-> Undefined]
Window(s, e) == [active |-> TRUE, start |-> ToISOString(s), end |-> ToISOString(e)]

\* windowed queries are half-open [start, end) against timeBucket
InWindow(bucket, tr) == ~tr.active \/ (tr.start.iso <= bucket /\ bucket < tr.end.iso)

NoTraffic == [i \in Identities |-> ZeroTraffic]
\* the rows of a backend; a backend id no row carries has none
StoreOf(b) == IF b \in DOMAIN db.traffic THEN db.traffic[b] ELSE NoTraffic
CacheOf(b) == IF b \in DOMAIN realtimeStore THEN realtimeStore[b] ELSE NoTraffic

DbTraffic(b, tr) ==
    [i \in Identities |-> IF InWindow(BucketOf[i], tr) THEN StoreOf(b)[i] ELSE ZeroTraffic]

DbKeyed(b, tr, keyOf) == SortRows(GroupRows(IdentityOrder, keyOf, DbTraffic(b, tr)))

DbGetSummary(b, tr) ==
    LET t == SumTraffic(Identities, DbTraffic(b, tr))
    IN  [totalConnections |-> t.connections,
         totalUpload |-> t.upload,
         totalDownload |-> t.download,
         uniqueDomains |-> Len(DbKeyed(b, tr, HostOf)),
         uniqueIPs |-> Len(DbKeyed(b, tr, IpOf))]

DbGetTopDomains(b, n, tr) == Take(n, DbKeyed(b, tr, HostOf))
DbGetTopIPs(b, n, tr) == Take(n, DbKeyed(b, tr, IpOf))
DbGetProxyStats(b, tr) == DbKeyed(b, tr, ChainOf)
DbGetRuleStats(b, tr) == DbKeyed(b, tr, RuleOf)
DbGetCountryStats(b, n, tr) == Take(n, DbKeyed(b, tr, CountryOf))
DbGetDevices(b, n, tr) == Take(n, DbKeyed(b, tr, DeviceOf))
DbGetHourlyStats(b, hours, tr) == Take(hours, DbKeyed(b, tr, BucketOf))
DbGetTrafficInRange(b, tr) ==
    LET t == SumTraffic(Identities, DbTraffic(b, tr))
    IN  [upload |-> t.upload, download |-> t.download]
\* trend rows of the last windowMinutes, or of the window when one is given
DbGetTrafficTrendAggregated(b, windowMinutes, bucketMinutes, tr) ==
    LET from == NowMs - windowMinutes * 60000
        bucketMs == bucketMinutes * 60000
        f == [i \in Identities |->
                IF tr.active \/ BucketOf[i] >= from THEN DbTraffic(b, tr)[i] ELSE ZeroTraffic]
        bucketOf == [i \in Identities |-> BucketOf[i] - (BucketOf[i] % bucketMs)]
    IN  GroupRows(IdentityOrder, bucketOf, f)
DbGetTrafficTrend(b, windowMinutes, tr) == DbGetTrafficTrendAggregated(b, windowMinutes, 1, tr)
DbGetDomainStatsPaginated(b, tr) ==
    LET rows == DbKeyed(b, tr, HostOf)
    IN  [data |-> rows, total |-> Len(rows)]

\* ---- Realtime Cache reads (section 4.2) ----

RtTotal(b) == SumTraffic(Identities, CacheOf(b))

\* additive merge of the cached rows of a dimension into a DB list, re-sorted
\* and truncated to topN
RECURSIVE MergeRows(_, _)
MergeRows(base, pend) ==
    IF pend = <<>> THEN base
    ELSE LET r == Head(pend)
             merged == IF r.key \in KeysOf(base)
                       THEN [j \in 1..Len(base) |->
                               IF base[j].key = r.key
                               THEN Row(r.key, AddTraffic(RowTraffic(base[j]), RowTraffic(r)))
                               ELSE base[j]]
                       ELSE Append(base, r)
         IN  MergeRows(merged, Tail(pend))

RtMergeAll(b, base, keyOf) ==
    SortRows(MergeRows(base, GroupRows(IdentityOrder, keyOf, CacheOf(b))))
RtMergeKeyed(b, base, keyOf, topN) == Take(topN, RtMergeAll(b, base, keyOf))

RtApplySummaryDelta(b, summary) ==
    LET t == RtTotal(b)
    IN  [summary EXCEPT !.totalConnections = @ + t.connections,
                        !.totalUpload = @ + t.upload,
                        !.totalDownload = @ + t.download]

RtMergeTopDomains(b, base, topN) == RtMergeKeyed(b, base, HostOf, topN)
RtMergeTopIPs(b, base, topN) == RtMergeKeyed(b, base, IpOf, topN)
RtMergeProxyStats(b, base) == RtMergeAll(b, base, ChainOf)
RtMergeCountryStats(b, base) == RtMergeAll(b, base, CountryOf)
RtGetTodayDelta(b) == [upload |-> RtTotal(b).upload, download |-> RtTotal(b).download]
\* the cached series is pending in the bucket of now
RtMergeTrend(b, base, windowMinutes, bucketMinutes) ==
    LET bucketMs == bucketMinutes * 60000
        nowBucket == NowMs - (NowMs % bucketMs)
        pend == IF RtTotal(b) = ZeroTraffic THEN <<>> ELSE <<Row(nowBucket, RtTotal(b))>>
    IN  MergeRows(base, pend)

\* ---- request parsing (api.ts) ----

\* a query-string parameter as the request carries it
Absent == [kind |-> "absent", n |-> 0]
Empty == [kind |-> "empty", n |-> 0]
Text == [kind |-> "text", n |-> 0]
Num(n) == [kind |-> "num", n |-> n]
\* a datetime written in UTC, and one written with a +01:00 offset
Iso(ms) == [kind |-> "iso", n |-> ms]
Offset(ms) == [kind |-> "offset", n |-> ms]

\* !param
Falsy(p) == p.kind \in {"absent", "empty"}

NaN == [nan |-> TRUE, n |-> 0]
Number(n) == [nan |-> FALSE, n |-> n]

\* parseInt(text, 10)
ParseInt(p) == IF p.kind = "num" THEN Number(p.n) ELSE NaN

\* new Date(text).getTime(): the instant the text names
DateOf(p) ==
    CASE p.kind = "iso" -> Number(p.n)
      [] p.kind = "offset" -> Number(p.n - HourMs)
      [] OTHER -> NaN

Null == [null |-> TRUE, id |-> 0, lookups |-> 0]

GetBackendId(q) ==
    IF ~Falsy(q.backendId)
    THEN LET id == ParseInt(q.backendId)
         IN  IF id.nan THEN Null ELSE [null |-> FALSE, id |-> id.n, lookups |-> 0]
    ELSE IF db.active = NoBackend
         THEN [Null EXCEPT !.lookups = 1]
         ELSE [null |-> FALSE, id |-> db.active, lookups |-> 1]

Send(code, err, data) == [status |-> code, error |-> err, data |-> data]
BadRequest(err) == Send(400, err, <<>>)
NotFound(err) == Send(404, err, <<>>)
Ok(data) == Send(200, "", data)

Rejected(err) == [null |-> TRUE, range |-> Unwindowed, sends |-> <<BadRequest(err)>>]
Accepted(range) == [null |-> FALSE, range |-> range, sends |-> <<>>]

GetTimeRange_Strict(q) ==
    IF Falsy(q.start) /\ Falsy(q.end) THEN Accepted(Unwindowed)
    ELSE IF Falsy(q.start) \/ Falsy(q.end)
    THEN Rejected("Both start and end must be provided together")
    ELSE LET startDate == DateOf(q.start)
             endDate == DateOf(q.end)
         IN  IF startDate.nan \/ endDate.nan
             THEN Rejected("Invalid time range format, expected ISO datetime")
             ELSE IF startDate.n >= endDate.n
             THEN Rejected("start must be less than or equal to end")
             ELSE Accepted(Window(startDate.n, endDate.n))

GetTimeRange(q) ==
    IF Falsy(q.start) /\ Falsy(q.end) THEN Accepted(Unwindowed)
    ELSE IF Falsy(q.start) \/ Falsy(q.end)
    THEN Rejected("Both start and end must be provided together")
    ELSE LET startDate == DateOf(q.start)
             endDate == DateOf(q.end)
         IN  IF startDate.nan \/ endDate.nan
             THEN Rejected("Invalid time range format, expected ISO datetime")
             ELSE IF startDate.n > endDate.n
             THEN Rejected("start must be less than or equal to end")
             ELSE Accepted(Window(startDate.n, endDate.n))

DefaultToleranceMs == 120000
MinToleranceMs == 10000

\* a tolerance that ignores the environment
ToleranceText_Unset == Num(DefaultToleranceMs)

\* process.env.REALTIME_RANGE_END_TOLERANCE_MS || '120000'
ToleranceText == IF env.kind \in {"absent", "empty"} THEN Num(DefaultToleranceMs) ELSE env

ShouldIncludeRealtime_Always(timeRange) == TRUE

ShouldIncludeRealtime_Never(timeRange) == FALSE

ShouldIncludeRealtime(timeRange) ==
    IF ~timeRange.active THEN TRUE
    ELSE IF timeRange.end = Undefined THEN FALSE
    ELSE LET endMs == timeRange.end.iso
             toleranceMs == ParseInt(ToleranceText)
             windowMs == IF ~toleranceMs.nan
                         THEN Max(MinToleranceMs, toleranceMs.n)
                         ELSE DefaultToleranceMs
         IN  endMs >= NowMs - windowMs

\* ---- handlers ----

\* what a handler did: the sends it made on the reply, in order, the backend
\* rows it looked up, the statistics queries it ran with their window, and
\* the Realtime Cache calls it made
Done(sends, lookups, queries, range, merges) ==
    [sends |-> sends, lookups |-> lookups, queries |-> queries,
     range |-> range, merges |-> merges]

NoBackendError == "No backend specified or active"

\* the early returns every handler but /devices starts with
Refused(backendId, timeRange) ==
    IF timeRange.null
    THEN Done(timeRange.sends, backendId.lookups, {}, Unwindowed, {})
    ELSE Done(<<NotFound(NoBackendError)>>, backendId.lookups, {}, Unwindowed, {})

SummaryTopN == 10
SummaryHours == 24
DefaultLimit == 50
DefaultMinutes == 30

SummaryWithRealtime_StoreOnly(includeRealtime, b, summary) == summary

SummaryWithRealtime(includeRealtime, b, summary) ==
    IF includeRealtime THEN RtApplySummaryDelta(b, summary) ELSE summary

SummaryMerges == {"applySummaryDelta", "mergeTopDomains", "mergeTopIPs",
                  "mergeProxyStats", "getTodayDelta"}
SummaryQueries == {"getSummary", "getTopDomains", "getTopIPs", "getProxyStats",
                   "getRuleStats", "getHourlyStats", "getTrafficInRange"}

StatsSummary(q) ==
    LET backendId == GetBackendId(q)
        timeRange == GetTimeRange(q)
    IN  IF timeRange.null \/ backendId.null THEN Refused(backendId, timeRange)
        ELSE IF backendId.id \notin Backends
        THEN Done(<<NotFound("Backend not found")>>, backendId.lookups + 1, {},
                  Unwindowed, {})
        ELSE LET b == backendId.id
                 tr == timeRange.range
                 includeRealtime == ShouldIncludeRealtime(tr)
                 summary == DbGetSummary(b, tr)
                 summaryWithRealtime == SummaryWithRealtime(includeRealtime, b, summary)
                 dbTopDomains == DbGetTopDomains(b, SummaryTopN, tr)
                 topDomains == IF includeRealtime
                               THEN RtMergeTopDomains(b, dbTopDomains, SummaryTopN)
                               ELSE dbTopDomains
                 dbTopIPs == DbGetTopIPs(b, SummaryTopN, tr)
                 topIPs == IF includeRealtime
                           THEN RtMergeTopIPs(b, dbTopIPs, SummaryTopN)
                           ELSE dbTopIPs
                 dbProxyStats == DbGetProxyStats(b, tr)
                 proxyStats == IF includeRealtime
                               THEN RtMergeProxyStats(b, dbProxyStats)
                               ELSE dbProxyStats
                 ruleStats == DbGetRuleStats(b, tr)
                 hourlyStats == DbGetHourlyStats(b, SummaryHours, tr)
                 todayTraffic == DbGetTrafficInRange(b, tr)
                 todayDelta == IF includeRealtime THEN RtGetTodayDelta(b)
                               ELSE [upload |-> 0, download |-> 0]
             IN  Done(<<Ok([backend |-> b,
                            totalConnections |-> summaryWithRealtime.totalConnections,
                            totalUpload |-> summaryWithRealtime.totalUpload,
                            totalDownload |-> summaryWithRealtime.totalDownload,
                            totalDomains |-> summary.uniqueDomains,
                            totalIPs |-> summary.uniqueIPs,
                            totalRules |-> Len(ruleStats),
                            totalProxies |-> Len(proxyStats),
                            todayUpload |-> todayTraffic.upload + todayDelta.upload,
                            todayDownload |-> todayTraffic.download + todayDelta.download,
                            topDomains |-> topDomains,
                            topIPs |-> topIPs,
                            proxyStats |-> proxyStats,
                            ruleStats |-> ruleStats,
                            hourlyStats |-> hourlyStats])>>,
                      backendId.lookups + 1, SummaryQueries, tr,
                      IF includeRealtime THEN SummaryMerges ELSE {})

StatsDomains(q) ==
    LET backendId == GetBackendId(q)
        timeRange == GetTimeRange(q)
    IN  IF timeRange.null \/ backendId.null THEN Refused(backendId, timeRange)
        ELSE Done(<<Ok(DbGetDomainStatsPaginated(backendId.id, timeRange.range))>>,
                  backendId.lookups, {"getDomainStatsPaginated"}, timeRange.range, {})

StatsProxies(q) ==
    LET backendId == GetBackendId(q)
        timeRange == GetTimeRange(q)
    IN  IF timeRange.null \/ backendId.null THEN Refused(backendId, timeRange)
        ELSE LET stats == DbGetProxyStats(backendId.id, timeRange.range)
             IN  IF ShouldIncludeRealtime(timeRange.range)
                 THEN Done(<<Ok(RtMergeProxyStats(backendId.id, stats))>>,
                           backendId.lookups, {"getProxyStats"}, timeRange.range,
                           {"mergeProxyStats"})
                 ELSE Done(<<Ok(stats)>>, backendId.lookups, {"getProxyStats"},
                           timeRange.range, {})

StatsRules(q) ==
    LET backendId == GetBackendId(q)
        timeRange == GetTimeRange(q)
    IN  IF timeRange.null \/ backendId.null THEN Refused(backendId, timeRange)
        ELSE Done(<<Ok(DbGetRuleStats(backendId.id, timeRange.range))>>,
                  backendId.lookups, {"getRuleStats"}, timeRange.range, {})

StatsCountries(q) ==
    LET backendId == GetBackendId(q)
        timeRange == GetTimeRange(q)
    IN  IF timeRange.null \/ backendId.null THEN Refused(backendId, timeRange)
        ELSE LET stats == DbGetCountryStats(backendId.id, DefaultLimit, timeRange.range)
             IN  IF ShouldIncludeRealtime(timeRange.range)
                 THEN Done(<<Ok(RtMergeCountryStats(backendId.id, stats))>>,
                           backendId.lookups, {"getCountryStats"}, timeRange.range,
                           {"mergeCountryStats"})
                 ELSE Done(<<Ok(stats)>>, backendId.lookups, {"getCountryStats"},
                           timeRange.range, {})

\* /devices tests the backend before the time range: with no backend, its 404
\* send follows the 400 that getTimeRange has already sent
StatsDevices(q) ==
    LET backendId == GetBackendId(q)
        timeRange == GetTimeRange(q)
    IN  IF backendId.null
        THEN Done(timeRange.sends \o <<NotFound(NoBackendError)>>, backendId.lookups,
                  {}, Unwindowed, {})
        ELSE IF timeRange.null
        THEN Done(timeRange.sends, backendId.lookups, {}, Unwindowed, {})
        ELSE Done(<<Ok(DbGetDevices(backendId.id, DefaultLimit, timeRange.range))>>,
                  backendId.lookups, {"getDevices"}, timeRange.range, {})

StatsHourly(q) ==
    LET backendId == GetBackendId(q)
        timeRange == GetTimeRange(q)
    IN  IF timeRange.null \/ backendId.null THEN Refused(backendId, timeRange)
        ELSE Done(<<Ok(DbGetHourlyStats(backendId.id, SummaryHours, timeRange.range))>>,
                  backendId.lookups, {"getHourlyStats"}, timeRange.range, {})

StatsTrend(q) ==
    LET backendId == GetBackendId(q)
        timeRange == GetTimeRange(q)
    IN  IF timeRange.null \/ backendId.null THEN Refused(backendId, timeRange)
        ELSE LET windowMinutes == DefaultMinutes
                 base == DbGetTrafficTrend(backendId.id, windowMinutes, timeRange.range)
             IN  IF ~ShouldIncludeRealtime(timeRange.range)
                 THEN Done(<<Ok(base)>>, backendId.lookups, {"getTrafficTrend"},
                           timeRange.range, {})
                 ELSE Done(<<Ok(RtMergeTrend(backendId.id, base, windowMinutes, 1))>>,
                           backendId.lookups, {"getTrafficTrend"}, timeRange.range,
                           {"mergeTrend"})

StatsTrendAggregated(q) ==
    LET backendId == GetBackendId(q)
        timeRange == GetTimeRange(q)
    IN  IF timeRange.null \/ backendId.null THEN Refused(backendId, timeRange)
        ELSE LET windowMinutes == DefaultMinutes
                 bucket == 1
                 base == DbGetTrafficTrendAggregated(backendId.id, windowMinutes, bucket,
                                                     timeRange.range)
             IN  IF ~ShouldIncludeRealtime(timeRange.range)
                 THEN Done(<<Ok(base)>>, backendId.lookups,
                           {"getTrafficTrendAggregated"}, timeRange.range, {})
                 ELSE Done(<<Ok(RtMergeTrend(backendId.id, base, windowMinutes, bucket))>>,
                           backendId.lookups, {"getTrafficTrendAggregated"},
                           timeRange.range, {"mergeTrend"})

\* ---- requests ----

BackendParams == {Absent, Text, Num(2), Num(7)}
StartParams == {Absent, Empty, Text, Iso(HourOld), Offset(NowMs - 600000 + HourMs),
                Iso(NowMs)}
EndParams == {Absent, Text, Iso(HourOld), Iso(NowMs - 600001),
              Iso(NowMs - DefaultToleranceMs - 1),
              Offset(NowMs - DefaultToleranceMs + HourMs),
              Iso(NowMs - MinToleranceMs - 1), Iso(NowMs)}
Queries == [backendId : BackendParams, start : StartParams, end : EndParams]
EnvValues == {Absent, Num(5000), Num(600000)}

NoRequest == [endpoint |-> "none",
              query |-> [backendId |-> Absent, start |-> Absent, end |-> Absent]]
NoReply == Done(<<>>, 0, {}, Unwindowed, {})

\* each handler runs to completion, one request at a time, and the reply leaves
IdleServer == request = NoRequest
Received(endpoint, q) == [endpoint |-> endpoint, query |-> q]

GetStatsSummary ==
    \E q \in Queries :
        /\ IdleServer
        /\ request' = Received("summary", q)
        /\ reply' = StatsSummary(q)
        /\ UNCHANGED <<db, realtimeStore, env>>
        /\ UNCHANGED <<webVars, deltaVars, flushVars, adminVars>>

GetStatsDomains ==
    \E q \in Queries :
        /\ IdleServer
        /\ request' = Received("domains", q)
        /\ reply' = StatsDomains(q)
        /\ UNCHANGED <<db, realtimeStore, env>>
        /\ UNCHANGED <<webVars, deltaVars, flushVars, adminVars>>

GetStatsProxies ==
    \E q \in Queries :
        /\ IdleServer
        /\ request' = Received("proxies", q)
        /\ reply' = StatsProxies(q)
        /\ UNCHANGED <<db, realtimeStore, env>>
        /\ UNCHANGED <<webVars, deltaVars, flushVars, adminVars>>

GetStatsRules ==
    \E q \in Queries :
        /\ IdleServer
        /\ request' = Received("rules", q)
        /\ reply' = StatsRules(q)
        /\ UNCHANGED <<db, realtimeStore, env>>
        /\ UNCHANGED <<webVars, deltaVars, flushVars, adminVars>>

GetStatsCountries ==
    \E q \in Queries :
        /\ IdleServer
        /\ request' = Received("countries", q)
        /\ reply' = StatsCountries(q)
        /\ UNCHANGED <<db, realtimeStore, env>>
        /\ UNCHANGED <<webVars, deltaVars, flushVars, adminVars>>

GetStatsDevices ==
    \E q \in Queries :
        /\ IdleServer
        /\ request' = Received("devices", q)
        /\ reply' = StatsDevices(q)
        /\ UNCHANGED <<db, realtimeStore, env>>
        /\ UNCHANGED <<webVars, deltaVars, flushVars, adminVars>>

GetStatsHourly ==
    \E q \in Queries :
        /\ IdleServer
        /\ request' = Received("hourly", q)
        /\ reply' = StatsHourly(q)
        /\ UNCHANGED <<db, realtimeStore, env>>
        /\ UNCHANGED <<webVars, deltaVars, flushVars, adminVars>>

GetStatsTrend ==
    \E q \in Queries :
        /\ IdleServer
        /\ request' = Received("trend", q)
        /\ reply' = StatsTrend(q)
        /\ UNCHANGED <<db, realtimeStore, env>>
        /\ UNCHANGED <<webVars, deltaVars, flushVars, adminVars>>

GetStatsTrendAggregated ==
    \E q \in Queries :
        /\ IdleServer
        /\ request' = Received("trendAggregated", q)
        /\ reply' = StatsTrendAggregated(q)
        /\ UNCHANGED <<db, realtimeStore, env>>
        /\ UNCHANGED <<webVars, deltaVars, flushVars, adminVars>>

\* the response has left; the server takes the next request
Deliver ==
    /\ request # NoRequest
    /\ request' = NoRequest
    /\ reply' = NoReply
    /\ UNCHANGED <<db, realtimeStore, env>>
    /\ UNCHANGED <<webVars, deltaVars, flushVars, adminVars>>

\* no traffic recorded, no backend active, no request
QueryQuiet ==
    /\ db = [traffic |-> [b \in Backends |-> NoTraffic], active |-> NoBackend]
    /\ realtimeStore = [b \in Backends |-> NoTraffic]
    /\ env = Absent
    /\ request = NoRequest
    /\ reply = NoReply

QueryStart ==
    /\ db \in [traffic : {t \in [Backends -> [Identities -> StoreTraffic]] :
                            /\ t[1]["i2"] # ZeroTraffic
                            /\ t[2]["i2"] = ZeroTraffic /\ t[2]["i1"] # ZeroTraffic},
               active : {NoBackend, 1}]
    /\ realtimeStore \in {c \in [Backends -> [Identities -> CacheTraffic]] :
                            c[2]["i1"] = ZeroTraffic /\ c[2]["i2"] # ZeroTraffic}
    /\ env \in EnvValues
    /\ request = NoRequest
    /\ reply = NoReply

-----------------------------------------------------------------------------
(* Backend management API: the backends table and the Supervisor           *)

Names == {"a", "b"}
Tokens == {"", "s1"}
\* ids a request may name: every id handed out so far and one never handed out
RequestIds == 1..(MaxCreated + 1)

\* ---- backends table (section 3, 4.1) ----

BackendRow(id, name, token) ==
    [id |-> id, name |-> name, token |-> token, enabled |-> TRUE,
     listening |-> TRUE, is_active |-> FALSE]

DbGetAllBackends == backends
DbGetBackend(id) == {r \in backends : r.id = id}
DbGetActiveBackend == {r \in backends : r.is_active}
\* the id getActiveBackend answers to the statistics handlers
ActiveOf(rows) ==
    IF \E r \in rows : r.is_active
    THEN (CHOOSE r \in rows : r.is_active).id
    ELSE NoBackend
DbGetListeningBackends == {r \in backends : r.enabled /\ r.listening}

\* name is unique: the insert fails with 'UNIQUE constraint failed'
NameTaken(rows, name) == \E r \in rows : r.name = name
DbCreateBackend(rows, id, name, token) == rows \cup {BackendRow(id, name, token)}
\* setting a new active clears the others
DbSetActiveBackend(rows, id) == {[r EXCEPT !.is_active = (r.id = id)] : r \in rows}
DbDeleteBackend(rows, id) == {r \in rows : r.id # id}
DbUpdateBackend(rows, id, field, value) ==
    {IF r.id = id THEN [r EXCEPT ![field] = value] ELSE r : r \in rows}
DbSetBackendListening(rows, id, v) == DbUpdateBackend(rows, id, "listening", v)

\* rows in id order, as the table returns them
RECURSIVE ById(_)
ById(rows) ==
    IF rows = {} THEN <<>>
    ELSE LET first == CHOOSE r \in rows : \A o \in rows : r.id <= o.id
         IN  <<first>> \o ById(rows \ {first})

\* ---- handlers (api.ts) ----

\* ({ ...backend, hasToken: !!backend.token }): the token stays in the row
Elide_Leak(r) ==
    [id |-> r.id, name |-> r.name, token |-> r.token, enabled |-> r.enabled,
     listening |-> r.listening, is_active |-> r.is_active, hasToken |-> (r.token # "")]

\* ({ token, ...rest }) => ({ ...rest, hasToken: !!token })
Elide(r) ==
    [id |-> r.id, name |-> r.name, enabled |-> r.enabled, listening |-> r.listening,
     is_active |-> r.is_active, hasToken |-> (r.token # "")]

ElideAll(rows) == [i \in 1..Cardinality(rows) |-> Elide(ById(rows)[i])]

\* a handler's returned object, sent with status 200
Returned(err, data) == Send(200, err, data)
Conflict_AsBadRequest(err) == Send(400, err, <<>>)
Conflict(err) == Send(409, err, <<>>)
Replied(send) == Done(<<send>>, 0, {}, Unwindowed, {})

BackendsBody(rows) == Ok(ElideAll(rows))
ActiveBody(rows) ==
    LET active == {r \in rows : r.is_active}
    IN  IF active = {}
        THEN Returned("No active backend configured", <<>>)
        ELSE Ok(Elide(CHOOSE r \in active : TRUE))
ListeningBody(rows) == Ok(ElideAll({r \in rows : r.enabled /\ r.listening}))

GetBackends ==
    /\ IdleServer
    /\ request' = Received("getBackends", <<>>)
    /\ reply' = Replied(BackendsBody(DbGetAllBackends))
    /\ UNCHANGED <<db, realtimeStore, env>>
    /\ UNCHANGED <<webVars, deltaVars, flushVars, adminVars>>

GetBackendsActive ==
    /\ IdleServer
    /\ request' = Received("getBackendsActive", <<>>)
    /\ reply' = Replied(ActiveBody(DbGetAllBackends))
    /\ UNCHANGED <<db, realtimeStore, env>>
    /\ UNCHANGED <<webVars, deltaVars, flushVars, adminVars>>

GetBackendsListening ==
    /\ IdleServer
    /\ request' = Received("getBackendsListening", <<>>)
    /\ reply' = Replied(ListeningBody(DbGetAllBackends))
    /\ UNCHANGED <<db, realtimeStore, env>>
    /\ UNCHANGED <<webVars, deltaVars, flushVars, adminVars>>

IsFirstBackend_Always(existingBackends) == TRUE

\* existingBackends.length === 0
IsFirstBackend(existingBackends) == existingBackends = {}

\* name "" stands for a body without a name
PostBackends(name, token) ==
    /\ IdleServer
    /\ request' = Received("postBackends", [name |-> name, token |-> token])
    /\ IF name = ""
       THEN /\ reply' = Replied(BadRequest("Name and URL are required"))
            /\ UNCHANGED <<backends, nextId>>
       ELSE IF NameTaken(backends, name)
       THEN /\ reply' = Replied(Conflict("Backend name already exists"))
            /\ UNCHANGED <<backends, nextId>>
       ELSE /\ nextId <= MaxCreated
            /\ LET isFirstBackend == IsFirstBackend(DbGetAllBackends)
                   id == nextId
                   created == DbCreateBackend(backends, id, name, token)
               IN  /\ backends' = IF isFirstBackend
                                  THEN DbSetActiveBackend(created, id)
                                  ELSE created
                   /\ reply' = Replied(Ok([id |-> id, isActive |-> isFirstBackend]))
            /\ nextId' = nextId + 1
    /\ UNCHANGED <<sessions, retention>>
    /\ db' = [db EXCEPT !.active = ActiveOf(backends')]
    /\ UNCHANGED <<realtimeStore, env>>
    /\ UNCHANGED <<webVars, deltaVars, flushVars>>

BackendNotFound == Replied(NotFound("Backend not found"))
Message(text) == Replied(Ok([message |-> text]))

\* the body sets enabled or listening
PutBackendsId(id, field, value) ==
    /\ IdleServer
    /\ request' = Received("putBackends", [id |-> id, field |-> field, value |-> value])
    /\ IF DbGetBackend(id) = {}
       THEN reply' = BackendNotFound /\ UNCHANGED backends
       ELSE /\ backends' = DbUpdateBackend(backends, id, field, value)
            /\ reply' = Message("Backend updated successfully")
    /\ UNCHANGED <<nextId, sessions, retention>>
    /\ db' = [db EXCEPT !.active = ActiveOf(backends')]
    /\ UNCHANGED <<realtimeStore, env>>
    /\ UNCHANGED <<webVars, deltaVars, flushVars>>

DeleteBackendsId(id) ==
    /\ IdleServer
    /\ request' = Received("deleteBackends", [id |-> id])
    /\ IF DbGetBackend(id) = {}
       THEN reply' = BackendNotFound /\ UNCHANGED backends
       ELSE /\ backends' = DbDeleteBackend(backends, id)
            /\ reply' = Message("Backend deleted successfully")
    /\ UNCHANGED <<nextId, sessions, retention>>
    /\ db' = [db EXCEPT !.active = ActiveOf(backends')]
    /\ UNCHANGED <<realtimeStore, env>>
    /\ UNCHANGED <<webVars, deltaVars, flushVars>>

PostBackendsActivate(id) ==
    /\ IdleServer
    /\ request' = Received("postActivate", [id |-> id])
    /\ IF DbGetBackend(id) = {}
       THEN reply' = BackendNotFound /\ UNCHANGED backends
       ELSE /\ backends' = DbSetActiveBackend(backends, id)
            /\ reply' = Message("Backend activated successfully")
    /\ UNCHANGED <<nextId, sessions, retention>>
    /\ db' = [db EXCEPT !.active = ActiveOf(backends')]
    /\ UNCHANGED <<realtimeStore, env>>
    /\ UNCHANGED <<webVars, deltaVars, flushVars>>

PostBackendsListening(id, v) ==
    /\ IdleServer
    /\ request' = Received("postListening", [id |-> id, listening |-> v])
    /\ IF DbGetBackend(id) = {}
       THEN reply' = BackendNotFound /\ UNCHANGED backends
       ELSE /\ backends' = DbSetBackendListening(backends, id, v)
            /\ reply' = Message(IF v THEN "Backend started listening"
                                     ELSE "Backend stopped listening")
    /\ UNCHANGED <<nextId, sessions, retention>>
    /\ db' = [db EXCEPT !.active = ActiveOf(backends')]
    /\ UNCHANGED <<realtimeStore, env>>
    /\ UNCHANGED <<webVars, deltaVars, flushVars>>

\* ---- Supervisor (section 4.5) ----

\* sync(): a Session for every enabled and listening backend, and for no other
SyncSessions ==
    /\ sessions # {r.id : r \in DbGetListeningBackends}
    /\ sessions' = {r.id : r \in DbGetListeningBackends}
    /\ UNCHANGED <<backends, nextId, retention>>
    /\ UNCHANGED queryVars
    /\ UNCHANGED <<webVars, deltaVars, flushVars>>

\* a JSON boolean
Flag(b) == [kind |-> "bool", n |-> IF b THEN 1 ELSE 0]
DefaultRetention == [connectionLogsDays |-> Num(7), hourlyStatsDays |-> Num(30),
                     autoCleanup |-> Flag(TRUE)]

\* no backend configured, the Supervisor in sync, retention as installed
AdminQuiet ==
    /\ backends = {}
    /\ nextId = 1
    /\ sessions = {}
    /\ retention = DefaultRetention

-----------------------------------------------------------------------------
(* Maintenance API: cleanup, clear-data and retention                      *)

\* JSON body values: Absent is a missing field, Text a string, Num a number
DaysValues == {Absent, Text, Num(-1), Num(0), Num(7)}
TargetValues == {Absent, Num(1), Num(2)}
ClearIds == {1, 2, 7}
ConnectionLogsValues == {Absent, Num(0), Num(1), Num(90), Num(91)}
HourlyStatsValues == {Absent, Num(6), Num(7), Num(365), Num(366)}
AutoCleanupValues == {Absent, Flag(FALSE)}

\* backendId || null
OrNull(backendId) ==
    IF backendId.kind = "num" /\ backendId.n # 0 THEN backendId.n ELSE NoBackend

\* db.cleanupOldData(backendId, days): days = 0 wipes the rows of the backend,
\* or of every backend when backendId is null; the aggregate rows are all
\* younger than a day
DbCleanupOldData(traffic, backendId, days) ==
    IF days = 0
    THEN [b \in DOMAIN traffic |->
            IF backendId = NoBackend \/ b = backendId THEN NoTraffic ELSE traffic[b]]
    ELSE traffic

\* db.deleteBackendData(backendId)
DbDeleteBackendData(traffic, backendId) ==
    [b \in DOMAIN traffic |-> IF b = backendId THEN NoTraffic ELSE traffic[b]]

\* realtimeStore.clearBackend(backendId)
ClearBackend(rt, backendId) ==
    [b \in DOMAIN rt |-> IF b = backendId THEN NoTraffic ELSE rt[b]]

\* for (const backend of backends) realtimeStore.clearBackend(backend.id)
RECURSIVE ClearBackends(_, _)
ClearBackends(rt, ids) ==
    IF ids = {} THEN rt
    ELSE LET id == CHOOSE x \in ids : TRUE
         IN  ClearBackends(ClearBackend(rt, id), ids \ {id})

CleanupKeepsCache(rt, backendId) == rt

\* the Realtime Cache after a cleanup with days = 0
CleanupCache(rt, backendId) ==
    IF backendId.kind = "num" /\ backendId.n # 0
    THEN ClearBackend(rt, backendId.n)
    ELSE ClearBackends(rt, {r.id : r \in DbGetAllBackends})

\* typeof days !== 'number' || days < 0
InvalidDays(days) == days.kind # "num" \/ days.n < 0

PostDbCleanup(days, backendId) ==
    /\ IdleServer
    /\ request' = Received("postDbCleanup", [days |-> days, backendId |-> backendId])
    /\ IF InvalidDays(days)
       THEN /\ reply' = Replied(Returned("Valid days parameter required", <<>>))
            /\ UNCHANGED <<db, realtimeStore>>
       ELSE /\ db' = [db EXCEPT !.traffic = DbCleanupOldData(@, OrNull(backendId), days.n)]
            /\ realtimeStore' = IF days.n = 0
                                THEN CleanupCache(realtimeStore, backendId)
                                ELSE realtimeStore
            /\ reply' = Message(IF days.n = 0 THEN "Cleaned all data"
                                             ELSE "Cleaned old connection logs")
    /\ UNCHANGED env
    /\ UNCHANGED <<webVars, deltaVars, flushVars, adminVars>>

PostClearData(id) ==
    /\ IdleServer
    /\ request' = Received("postClearData", [id |-> id])
    /\ IF DbGetBackend(id) = {}
       THEN reply' = BackendNotFound /\ UNCHANGED db
       ELSE /\ db' = [db EXCEPT !.traffic = DbDeleteBackendData(@, id)]
            /\ reply' = Message("Backend data cleared successfully")
    /\ UNCHANGED <<realtimeStore, env>>
    /\ UNCHANGED <<webVars, deltaVars, flushVars, adminVars>>

\* the Flusher writes a backend's pending deltas to the Store (section 4.6)
FlushPending(b) ==
    /\ IdleServer
    /\ realtimeStore[b] # NoTraffic
    /\ db' = [db EXCEPT !.traffic[b] = [i \in Identities |-> AddTraffic(@[i], realtimeStore[b][i])]]
    /\ realtimeStore' = [realtimeStore EXCEPT ![b] = NoTraffic]
    /\ UNCHANGED <<env, request, reply>>
    /\ UNCHANGED <<webVars, deltaVars, flushVars, adminVars>>

MinConnectionLogsDays == 1
MaxConnectionLogsDays == 90
MinHourlyStatsDays == 7
MaxHourlyStatsDays == 365

OutOfRange_Never(v, lo, hi) == FALSE

\* v !== undefined && (v < lo || v > hi)
OutOfRange(v, lo, hi) == v.kind # "absent" /\ (v.n < lo \/ v.n > hi)

\* db.updateRetentionConfig: the fields given replace the stored ones
DbUpdateRetentionConfig(config, updates) ==
    [f \in DOMAIN config |-> IF updates[f] = Absent THEN config[f] ELSE updates[f]]

PutDbRetention(connectionLogsDays, hourlyStatsDays, autoCleanup) ==
    /\ IdleServer
    /\ request' = Received("putDbRetention",
                           [connectionLogsDays |-> connectionLogsDays,
                            hourlyStatsDays |-> hourlyStatsDays,
                            autoCleanup |-> autoCleanup])
    /\ IF OutOfRange(connectionLogsDays, MinConnectionLogsDays, MaxConnectionLogsDays)
       THEN /\ reply' = Replied(BadRequest("connectionLogsDays must be between 1 and 90"))
            /\ UNCHANGED retention
       ELSE IF OutOfRange(hourlyStatsDays, MinHourlyStatsDays, MaxHourlyStatsDays)
       THEN /\ reply' = Replied(BadRequest("hourlyStatsDays must be between 7 and 365"))
            /\ UNCHANGED retention
       ELSE LET newConfig == DbUpdateRetentionConfig(retention,
                                [connectionLogsDays |-> connectionLogsDays,
                                 hourlyStatsDays |-> hourlyStatsDays,
                                 autoCleanup |-> autoCleanup])
            IN  /\ retention' = newConfig
                /\ reply' = Replied(Ok([config |-> newConfig]))
    /\ UNCHANGED <<backends, nextId, sessions>>
    /\ UNCHANGED <<db, realtimeStore, env>>
    /\ UNCHANGED <<webVars, deltaVars, flushVars>>

\* two stored backends with their Sessions running, rows in the Store and
\* deltas pending in the Realtime Cache
MaintenanceStart ==
    /\ db \in [traffic : {t \in [Backends -> [Identities -> StoreTraffic]] :
                            /\ t[1]["i2"] # ZeroTraffic
                            /\ t[2]["i2"] = ZeroTraffic /\ t[2]["i1"] # ZeroTraffic},
               active : {NoBackend, 1}]
    /\ realtimeStore \in {c \in [Backends -> [Identities -> CacheTraffic]] :
                            c[1]["i1"] # ZeroTraffic /\ c[2]["i1"] = ZeroTraffic}
    /\ env = Absent
    /\ request = NoRequest
    /\ reply = NoReply
    /\ backends = DbSetActiveBackend({BackendRow(1, "a", ""), BackendRow(2, "b", "s1")},
                                     db.active)
    /\ nextId = 3
    /\ sessions = {1, 2}
    /\ retention = DefaultRetention

-----------------------------------------------------------------------------
(* Paginated list queries: GET /api/stats/domains and /api/stats/ips       *)

OffsetParams == {Absent, Text, Num(0), Num(1), Num(2), Num(5)}
LimitParams == {Absent, Text, Num(0), Num(1), Num(2), Num(600)}
SortOrders == {Absent, Text}
SearchTexts == {"", "a.example", "1.1.1.1", "zzz"}
PageQueries ==
    [backendId : {Num(1), Num(2)}, start : {Absent}, end : {Absent},
     offset : OffsetParams, limit : LimitParams, sortOrder : SortOrders,
     search : SearchTexts]

\* offset ? parseInt(offset) || 0 : 0
PageOffset(p) ==
    IF Falsy(p) THEN 0
    ELSE LET n == ParseInt(p) IN IF n.nan \/ n.n = 0 THEN 0 ELSE n.n

PageLimit_NoDefault(p) ==
    IF Falsy(p) THEN 0
    ELSE LET n == ParseInt(p) IN IF n.nan THEN 0 ELSE n.n

\* limit ? parseInt(limit) || 50 : 50
PageLimit(p) ==
    IF Falsy(p) THEN DefaultLimit
    ELSE LET n == ParseInt(p) IN IF n.nan \/ n.n = 0 THEN DefaultLimit ELSE n.n

\* the options the handler forwards; the sort order Text stands for 'asc'
PageOptions(q, tr) ==
    [offset |-> PageOffset(q.offset), limit |-> PageLimit(q.limit),
     sortOrder |-> q.sortOrder, search |-> q.search, range |-> tr]

MaxLimit == 500
Min(a, b) == IF a <= b THEN a ELSE b

\* search over keys none of which contains another: the search texts of the
\* model are whole keys, the empty text, or a text no key contains
Contains(key, search) == search = "" \/ key = search
RECURSIVE Filter(_, _)
Filter(rows, search) ==
    IF rows = <<>> THEN <<>>
    ELSE (IF Contains(Head(rows).key, search) THEN <<Head(rows)>> ELSE <<>>)
         \o Filter(Tail(rows), search)
Reverse(seq) == [i \in 1..Len(seq) |-> seq[Len(seq) + 1 - i]]
\* rows offset+1 .. offset+limit of the list
Slice(rows, offset, limit) ==
    IF offset >= Len(rows) THEN <<>>
    ELSE SubSeq(rows, offset + 1, Min(Len(rows), offset + limit))

\* the rows matching the search and the window, in the requested order
DbMatching(b, keyOf, o) ==
    LET rows == Filter(DbKeyed(b, o.range, keyOf), o.search)
    IN  IF o.sortOrder = Absent THEN rows ELSE Reverse(rows)

\* db.getDomainStatsPaginated / db.getIPStatsPaginated with their options
DbGetStatsPage(b, keyOf, o) ==
    LET rows == DbMatching(b, keyOf, o)
    IN  [data |-> Slice(rows, o.offset, Min(o.limit, MaxLimit)), total |-> Len(rows)]

StatsPage(q, keyOf, query) ==
    LET backendId == GetBackendId(q)
        timeRange == GetTimeRange(q)
    IN  IF timeRange.null \/ backendId.null THEN Refused(backendId, timeRange)
        ELSE Done(<<Ok(DbGetStatsPage(backendId.id, keyOf,
                                      PageOptions(q, timeRange.range)))>>,
                  backendId.lookups, {query}, timeRange.range, {})

GetStatsDomainsPage ==
    \E q \in PageQueries :
        /\ IdleServer
        /\ request' = Received("domainsPage", q)
        /\ reply' = StatsPage(q, HostOf, "getDomainStatsPaginated")
        /\ UNCHANGED <<db, realtimeStore, env>>
        /\ UNCHANGED <<webVars, deltaVars, flushVars, adminVars>>

GetStatsIpsPage ==
    \E q \in PageQueries :
        /\ IdleServer
        /\ request' = Received("ipsPage", q)
        /\ reply' = StatsPage(q, IpOf, "getIPStatsPaginated")
        /\ UNCHANGED <<db, realtimeStore, env>>
        /\ UNCHANGED <<webVars, deltaVars, flushVars, adminVars>>

\* a Store with up to two domains and two IPs per backend
PageStart ==
    /\ db \in [traffic : [Backends -> [Identities -> StoreTraffic]], active : {NoBackend}]
    /\ realtimeStore = [b \in Backends |-> NoTraffic]
    /\ env = Absent
    /\ request = NoRequest
    /\ reply = NoReply

-----------------------------------------------------------------------------
(* The overlay tolerance, at window ends around now minus the tolerance    *)

ToleranceEnvValues ==
    {Absent, Empty, Text, Num(-5), Num(0), Num(5000), Num(MinToleranceMs), Num(600000)}
NearEnds ==
    {Iso(NowMs - 600001), Iso(NowMs - 600000),
     Iso(NowMs - DefaultToleranceMs - 1), Iso(NowMs - DefaultToleranceMs),
     Iso(NowMs - MinToleranceMs - 1), Iso(NowMs - MinToleranceMs),
     Iso(NowMs - 5000), Iso(NowMs)}
NearQueries == [backendId : {Num(1)}, start : {Iso(HourOld)}, end : NearEnds]

GetStatsCountriesNearNow ==
    \E q \in NearQueries :
        /\ IdleServer
        /\ request' = Received("countries", q)
        /\ reply' = StatsCountries(q)
        /\ UNCHANGED <<db, realtimeStore, env>>
        /\ UNCHANGED <<webVars, deltaVars, flushVars, adminVars>>

ToleranceStart ==
    /\ db \in [traffic : {t \in [Backends -> [Identities -> StoreTraffic]] :
                            /\ t[1]["i2"] # ZeroTraffic
                            /\ t[2]["i2"] = ZeroTraffic /\ t[2]["i1"] # ZeroTraffic},
               active : {NoBackend}]
    /\ realtimeStore \in {c \in [Backends -> [Identities -> CacheTraffic]] :
                            c[1]["i1"] # ZeroTraffic /\ c[2] = NoTraffic}
    /\ env \in ToleranceEnvValues
    /\ request = NoRequest
    /\ reply = NoReply

-----------------------------------------------------------------------------
(* Backend connection test: POST /api/backends/test, /api/backends/:id/test *)

TimeoutMs == 5000
TickMs == 1000
CloseCodes == {1000, 1005, 1006}
\* the url of the request body: missing, not a URL, the URL of a WebSocket server
Urls == {"missing", "invalid", "valid"}

NoProbe == [ws |-> "none", timer |-> FALSE, elapsed |-> 0, settled |-> FALSE,
            events |-> <<>>, answeredAt |-> 0]
Unmounted == [mounted |-> FALSE]

WebQuiet ==
    /\ probe = NoProbe
    /\ proxyView = Unmounted
    /\ listTable = Unmounted
    /\ drill = Unmounted
    /\ pager = Unmounted

\* an event of the WebSocket or of the timer, with the code of a close
Ev(name, code) == [name |-> name, code |-> code]
TestResult(success, message) == Ok([success |-> success, message |-> message])

\* resolve(result): the first call settles the promise and the result is sent
Resolve(result) ==
    IF probe.settled
    THEN UNCHANGED reply
    ELSE reply' = Replied(result)
Settling(p) == [p EXCEPT !.settled = TRUE,
                         !.answeredAt = IF probe.settled THEN @ ELSE probe.elapsed]

\* new WebSocket(fullUrl, ...), the listeners and setTimeout(..., 5000)
StartTest(endpoint, url) ==
    /\ request' = Received(endpoint, [url |-> url])
    /\ CASE url = "missing" ->
              \* url.replace throws inside the try block
              /\ reply' = Replied(TestResult(FALSE, "Connection failed"))
              /\ UNCHANGED probe
         [] url = "invalid" ->
              \* the constructor throws inside the promise executor: the promise
              \* is rejected outside the reach of the catch block
              /\ reply' = Replied(Send(500, "Invalid URL", <<>>))
              /\ UNCHANGED probe
         [] url = "valid" ->
              /\ probe' = [NoProbe EXCEPT !.ws = "connecting", !.timer = TRUE]
              /\ UNCHANGED reply

PostBackendsTest(url) ==
    /\ IdleServer /\ probe = NoProbe
    /\ StartTest("postBackendsTest", url)
    /\ UNCHANGED <<db, realtimeStore, env>>
    /\ UNCHANGED <<proxyView, listTable, drill, pager>>
    /\ UNCHANGED <<deltaVars, flushVars, adminVars>>

PostBackendsIdTest(id, url) ==
    /\ IdleServer /\ probe = NoProbe
    /\ IF DbGetBackend(id) = {}
       THEN /\ request' = Received("postBackendsIdTest", [url |-> url])
            /\ reply' = BackendNotFound
            /\ UNCHANGED probe
       ELSE StartTest("postBackendsIdTest", url)
    /\ UNCHANGED <<db, realtimeStore, env>>
    /\ UNCHANGED <<proxyView, listTable, drill, pager>>
    /\ UNCHANGED <<deltaVars, flushVars, adminVars>>

\* ws.on('open'): ws.close(); resolve({ success: true, ... })
WsOpen ==
    /\ probe.ws = "connecting"
    /\ probe' = Settling([probe EXCEPT !.ws = "closing", !.events = Append(@, Ev("open", 0))])
    /\ Resolve(TestResult(TRUE, "Connection successful"))
    /\ UNCHANGED <<db, realtimeStore, env, request>>
    /\ UNCHANGED <<proxyView, listTable, drill, pager>>
    /\ UNCHANGED <<deltaVars, flushVars, adminVars>>

\* ws.on('error'): resolve({ success: false, ... })
WsError ==
    /\ probe.ws \in {"connecting", "closing"}
    /\ probe' = Settling([probe EXCEPT !.ws = "failed", !.events = Append(@, Ev("error", 0))])
    /\ Resolve(TestResult(FALSE, "Connection failed"))
    /\ UNCHANGED <<db, realtimeStore, env, request>>
    /\ UNCHANGED <<proxyView, listTable, drill, pager>>
    /\ UNCHANGED <<deltaVars, flushVars, adminVars>>

AbnormalClose_Never(code) == FALSE

\* code !== 1000 && code !== 1005
AbnormalClose(code) == code # 1000 /\ code # 1005

\* ws.on('close')
WsClose(code) ==
    /\ probe.ws \in {"connecting", "closing", "failed", "terminated"}
    /\ probe.ws \in {"failed", "terminated"} => code = 1006
    /\ IF AbnormalClose(code)
       THEN /\ probe' = Settling([probe EXCEPT !.ws = "closed",
                                               !.events = Append(@, Ev("close", code))])
            /\ Resolve(TestResult(FALSE, "Connection closed"))
       ELSE /\ probe' = [probe EXCEPT !.ws = "closed", !.events = Append(@, Ev("close", code))]
            /\ UNCHANGED reply
    /\ UNCHANGED <<db, realtimeStore, env, request>>
    /\ UNCHANGED <<proxyView, listTable, drill, pager>>
    /\ UNCHANGED <<deltaVars, flushVars, adminVars>>

\* the timer callback: ws.terminate(); resolve({ success: false, ... })
Timeout ==
    /\ probe.timer /\ probe.elapsed = TimeoutMs
    /\ probe' = Settling([probe EXCEPT !.timer = FALSE,
                                       !.ws = IF @ = "closed" THEN @ ELSE "terminated",
                                       !.events = Append(@, Ev("timeout", 0))])
    /\ Resolve(TestResult(FALSE, "Connection timeout"))
    /\ UNCHANGED <<db, realtimeStore, env, request>>
    /\ UNCHANGED <<proxyView, listTable, drill, pager>>
    /\ UNCHANGED <<deltaVars, flushVars, adminVars>>

\* time passes; the timer fires when its 5000 ms are over
Tick ==
    /\ probe.timer /\ probe.elapsed < TimeoutMs
    /\ probe' = [probe EXCEPT !.elapsed = @ + TickMs]
    /\ UNCHANGED queryVars
    /\ UNCHANGED <<proxyView, listTable, drill, pager>>
    /\ UNCHANGED <<deltaVars, flushVars, adminVars>>

\* the response has left, the socket is closed and the timer has fired
TestOver ==
    /\ request # NoRequest /\ reply # NoReply
    /\ probe = NoProbe \/ (probe.ws = "closed" /\ ~probe.timer)
    /\ request' = NoRequest
    /\ reply' = NoReply
    /\ probe' = NoProbe
    /\ UNCHANGED <<db, realtimeStore, env>>
    /\ UNCHANGED <<proxyView, listTable, drill, pager>>
    /\ UNCHANGED <<deltaVars, flushVars, adminVars>>

\* one stored backend
ProbeStart ==
    /\ backends = DbSetActiveBackend({BackendRow(1, "a", "s1")}, 1)
    /\ nextId = 2
    /\ sessions = {1}
    /\ retention = DefaultRetention

-----------------------------------------------------------------------------
(* DomainsTable / IPsTable: the server-paginated list                      *)

Pages == {1, 2}
SortOrderValues == {"desc", "asc"}

\* the dependencies of the fetch effect that the model varies
ListDeps(t) == <<t.activeBackendId, t.currentPage, t.sortOrder>>

\* the component after its first render, before its effects have run
ListMounted ==
    [mounted |-> TRUE, activeBackendId |-> 1, currentPage |-> 1, sortOrder |-> "desc",
     data |-> <<>>, total |-> 0, loading |-> FALSE,
     fetches |-> {}, issued |-> 0, effectDeps |-> <<>>]

\* the effect has to run: a dependency differs from the last run's
ListEffectDue == listTable.effectDeps # ListDeps(listTable)
ListSettled == ~ListEffectDue

\* what the server answers to a fetch: rows that name the fetch
ResultOf(f) == [data |-> <<f.id>>, total |-> 1]

WebFrame ==
    /\ UNCHANGED <<deltaVars, flushVars, queryVars, adminVars>>

\* cleanup of the previous run (cancelled = true), then fetchData()
FetchDataEffect ==
    /\ listTable.mounted /\ ListEffectDue
    /\ listTable.issued < MaxFetches
    /\ listTable' =
          [listTable EXCEPT
             !.effectDeps = ListDeps(listTable),
             !.issued = @ + 1,
             !.loading = TRUE,
             !.fetches = {[f EXCEPT !.cancelled = TRUE] : f \in @}
                         \cup {[id |-> listTable.issued + 1, cancelled |-> FALSE]}]
    /\ UNCHANGED <<probe, proxyView, drill, pager>>
    /\ WebFrame

SetsState_Always(f) == TRUE

\* if (!cancelled)
SetsState(f) == ~f.cancelled

\* the awaited api call returns: try branch and finally
FetchDataReturns(f) ==
    /\ listTable.mounted /\ f \in listTable.fetches
    /\ listTable' =
          IF SetsState(f)
          THEN [listTable EXCEPT !.fetches = @ \ {f},
                                 !.data = ResultOf(f).data,
                                 !.total = ResultOf(f).total,
                                 !.loading = FALSE]
          ELSE [listTable EXCEPT !.fetches = @ \ {f}]
    /\ UNCHANGED <<probe, proxyView, drill, pager>>
    /\ WebFrame

\* the awaited api call throws: catch branch and finally
FetchDataFails(f) ==
    /\ listTable.mounted /\ f \in listTable.fetches
    /\ listTable' =
          IF SetsState(f)
          THEN [listTable EXCEPT !.fetches = @ \ {f},
                                 !.data = <<>>,
                                 !.total = 0,
                                 !.loading = FALSE]
          ELSE [listTable EXCEPT !.fetches = @ \ {f}]
    /\ UNCHANGED <<probe, proxyView, drill, pager>>
    /\ WebFrame

\* a page button
SetCurrentPage(p) ==
    /\ listTable.mounted /\ ListSettled
    /\ listTable' = [listTable EXCEPT !.currentPage = p]
    /\ UNCHANGED <<probe, proxyView, drill, pager>>
    /\ WebFrame

\* handleSort on the current sort key
HandleSort ==
    /\ listTable.mounted /\ ListSettled
    /\ listTable' = [listTable EXCEPT
                        !.sortOrder = IF @ = "asc" THEN "desc" ELSE "asc",
                        !.currentPage = 1]
    /\ UNCHANGED <<probe, proxyView, drill, pager>>
    /\ WebFrame

\* the parent passes another activeBackendId
ListBackendSwitch(b) ==
    /\ listTable.mounted /\ ListSettled
    /\ b # listTable.activeBackendId
    /\ listTable' = [listTable EXCEPT !.activeBackendId = b]
    /\ UNCHANGED <<probe, proxyView, drill, pager>>
    /\ WebFrame

ListStart ==
    /\ probe = NoProbe
    /\ proxyView = Unmounted
    /\ listTable = ListMounted
    /\ drill = Unmounted
    /\ pager = Unmounted

-----------------------------------------------------------------------------
(* DomainStatsTable (richExpand), DomainsTable, IPsTable: the drill-down   *)
(* of an expanded row, shown for proxyStats                                *)

Rows == {"A", "B"}
NoRow == "null"
NotCached == [cached |-> FALSE, context |-> 0, id |-> 0]
\* the entry a returned fetch stores; a failed fetch stores an empty list
Cached(f) == [cached |-> TRUE, context |-> f.context, id |-> f.id]
EmptyCache == [d \in Rows |-> NotCached]

\* the component after its first render, before its effects have run
DrillMounted ==
    [mounted |-> TRUE, activeBackendId |-> 1, expandedDomain |-> NoRow,
     proxyStats |-> EmptyCache, proxyStatsLoading |-> NoRow,
     fetches |-> {}, issued |-> 0,
     contextDue |-> TRUE, fetchDue |-> {"mount"}]

DrillSettled == ~drill.contextDue /\ drill.fetchDue = {}

\* api.getDomainProxyStats called from a render whose closure holds the
\* marker `captured`
DrillFetch(id, domain, context, captured) ==
    [id |-> id, domain |-> domain, context |-> context, captured |-> captured]

\* const hasCached = !!proxyStats[domain]
HasCached(s, domain) == s.proxyStats[domain].cached

\* fetchProxyStats(domain, { force, background }) of the render s: the
\* fetches it starts, numbered from id
StartedBy(s, domain, force, id) ==
    IF ~force /\ HasCached(s, domain) THEN {}
    ELSE {DrillFetch(id, domain, s.activeBackendId, s.proxyStatsLoading)}
\* ... and whether it calls setProxyStatsLoading(domain)
MarksLoading(s, domain, force, background) ==
    /\ force \/ ~HasCached(s, domain)
    /\ ~background \/ ~HasCached(s, domain)

\* the effects of one commit, in the order of their declaration, each with the
\* closure of the render s: the context-switch effect, the expand effect and
\* the refresh effect
RunDrillEffects ==
    /\ drill.mounted /\ ~DrillSettled
    /\ LET s == drill
           d == s.expandedDomain
           fetching == s.fetchDue # {} /\ d # NoRow
           first == IF fetching THEN StartedBy(s, d, FALSE, s.issued + 1) ELSE {}
           second == IF fetching
                     THEN StartedBy(s, d, TRUE, s.issued + Cardinality(first) + 1)
                     ELSE {}
           marked == fetching /\ (\/ MarksLoading(s, d, FALSE, FALSE)
                                  \/ MarksLoading(s, d, TRUE, TRUE))
           marker == IF marked THEN d
                     ELSE IF s.contextDue THEN NoRow ELSE s.proxyStatsLoading
           expanded == IF s.contextDue THEN NoRow ELSE d
       IN  /\ s.issued + Cardinality(first \cup second) <= MaxDrillFetches
           /\ drill' =
                [s EXCEPT
                   !.expandedDomain = expanded,
                   !.proxyStats = IF s.contextDue THEN EmptyCache ELSE @,
                   !.proxyStatsLoading = marker,
                   !.fetches = @ \cup first \cup second,
                   !.issued = @ + Cardinality(first \cup second),
                   !.contextDue = FALSE,
                   !.fetchDue = IF \/ s.contextDue
                                   \/ marker # s.proxyStatsLoading
                                   \/ expanded # d
                                THEN {"effect"} ELSE {}]
    /\ UNCHANGED <<probe, proxyView, listTable, pager>>
    /\ WebFrame

\* toggleExpand(domain)
ToggleExpand(domain) ==
    /\ drill.mounted /\ DrillSettled
    /\ LET s == drill
           newExpanded == IF s.expandedDomain = domain THEN NoRow ELSE domain
           started == IF newExpanded # NoRow
                      THEN StartedBy(s, newExpanded, FALSE, s.issued + 1) ELSE {}
       IN  /\ s.issued + Cardinality(started) <= MaxDrillFetches
           /\ drill' =
                [s EXCEPT
                   !.expandedDomain = newExpanded,
                   !.proxyStatsLoading =
                        IF newExpanded # NoRow /\ MarksLoading(s, newExpanded, FALSE, FALSE)
                        THEN newExpanded ELSE @,
                   !.fetches = @ \cup started,
                   !.issued = @ + Cardinality(started),
                   !.fetchDue = {"toggle"}]
    /\ UNCHANGED <<probe, proxyView, listTable, pager>>
    /\ WebFrame

ClearsMarker_Always(f) == TRUE

\* if (proxyStatsLoading === domain), with the marker of the fetch's closure
ClearsMarker(f) == f.captured = f.domain

\* the awaited call returns or throws, after the effects of the last commit
\* have run: setProxyStats stores the result (the empty list after a failure),
\* then the finally block
DrillFetchCompletes(f) ==
    /\ drill.mounted /\ DrillSettled /\ f \in drill.fetches
    /\ drill' =
          [drill EXCEPT
             !.fetches = @ \ {f},
             !.proxyStats = [@ EXCEPT ![f.domain] = Cached(f)],
             !.proxyStatsLoading = IF ClearsMarker(f) THEN NoRow ELSE @,
             !.fetchDue = {"completion"}]
    /\ UNCHANGED <<probe, proxyView, listTable, pager>>
    /\ WebFrame

\* the parent passes another activeBackendId (likewise sourceIP, sourceChain)
ContextSwitch(b) ==
    /\ drill.mounted /\ DrillSettled
    /\ b # drill.activeBackendId
    /\ drill' = [drill EXCEPT !.activeBackendId = b,
                              !.contextDue = TRUE,
                              !.fetchDue = {"props"}]
    /\ UNCHANGED <<probe, proxyView, listTable, pager>>
    /\ WebFrame

DrillStart ==
    /\ probe = NoProbe
    /\ proxyView = Unmounted
    /\ listTable = Unmounted
    /\ drill = DrillMounted
    /\ pager = Unmounted

-----------------------------------------------------------------------------
(* InteractiveProxyStats: the details of the selected proxy                *)

\* chartData: the chains of the data prop, in order
Proxies == <<"P1", "P2">>

\* the dependencies of the detail effect
DetailDeps(v) ==
    [selectedProxy |-> v.selectedProxy, activeBackendId |-> v.activeBackendId,
     domains |-> Len(v.proxyDomains), ips |-> Len(v.proxyIPs),
     loading |-> v.loading]
NoDeps == [selectedProxy |-> NoRow, activeBackendId |-> NoBackend,
           domains |-> 0, ips |-> 0, loading |-> TRUE]

\* the component after its first render, before its effects have run
ProxyViewMounted ==
    [mounted |-> TRUE, activeBackendId |-> 1, selectedProxy |-> NoRow,
     proxyDomains |-> <<>>, proxyIPs |-> <<>>, loading |-> FALSE,
     requestIdRef |-> 0, prevSelectedProxyRef |-> NoRow,
     prevBackendRef |-> NoBackend, fetches |-> {}, effectDeps |-> NoDeps]

ProxyViewSettled == proxyView.effectDeps = DetailDeps(proxyView)

\* the effects of one commit with the closure of the render s: the effect that
\* selects the first proxy when the selected one is not in the chart, then the
\* detail effect
RunProxyEffects ==
    /\ proxyView.mounted /\ ~ProxyViewSettled
    /\ LET s == proxyView
           exists == \E i \in 1..Len(Proxies) : Proxies[i] = s.selectedProxy
           selectedChanged == s.prevSelectedProxyRef # s.selectedProxy
           backendChanged == s.prevBackendRef # s.activeBackendId
           hasExistingDetails == Len(s.proxyDomains) > 0 \/ Len(s.proxyIPs) > 0
           loads == /\ s.selectedProxy # NoRow
                    /\ ~(s.loading /\ ~selectedChanged /\ ~backendChanged)
           background == ~selectedChanged /\ ~backendChanged /\ hasExistingDetails
           requestId == s.requestIdRef + 1
       IN  /\ loads => requestId <= MaxDetailRequests
           /\ proxyView' =
                [s EXCEPT
                   !.selectedProxy = IF exists THEN @ ELSE Proxies[1],
                   !.prevSelectedProxyRef = IF loads THEN s.selectedProxy ELSE @,
                   !.prevBackendRef = IF loads THEN s.activeBackendId ELSE @,
                   !.requestIdRef = IF loads THEN requestId ELSE @,
                   !.loading = IF loads /\ ~background THEN TRUE ELSE @,
                   !.fetches = IF loads
                               THEN @ \cup {[requestId |-> requestId,
                                             chain |-> s.selectedProxy,
                                             background |-> background]}
                               ELSE @,
                   !.effectDeps = DetailDeps(s)]
    /\ UNCHANGED <<probe, listTable, drill, pager>>
    /\ WebFrame

\* the lists a request can return: empty, or rows of that request
DetailLists(f) == {<<>>, <<f.requestId>>}

IsLatest_Always(v, f) == TRUE

\* requestId === requestIdRef.current
IsLatest(v, f) == f.requestId = v.requestIdRef

\* Promise.all returns
DetailsReturn(f, domains, ips) ==
    /\ proxyView.mounted /\ ProxyViewSettled /\ f \in proxyView.fetches
    /\ proxyView' =
          [proxyView EXCEPT
             !.fetches = @ \ {f},
             !.proxyDomains = IF IsLatest(proxyView, f) THEN domains ELSE @,
             !.proxyIPs = IF IsLatest(proxyView, f) THEN ips ELSE @,
             !.loading = IF ~f.background /\ IsLatest(proxyView, f)
                         THEN FALSE ELSE @]
    /\ UNCHANGED <<probe, listTable, drill, pager>>
    /\ WebFrame

\* Promise.all throws
DetailsFail(f) ==
    /\ proxyView.mounted /\ ProxyViewSettled /\ f \in proxyView.fetches
    /\ proxyView' =
          [proxyView EXCEPT
             !.fetches = @ \ {f},
             !.proxyDomains = IF ~f.background THEN <<>> ELSE @,
             !.proxyIPs = IF ~f.background THEN <<>> ELSE @,
             !.loading = IF ~f.background /\ IsLatest(proxyView, f)
                         THEN FALSE ELSE @]
    /\ UNCHANGED <<probe, listTable, drill, pager>>
    /\ WebFrame

\* what the server holds for the chain stays as it is while the view is
\* shown: a response has as many rows as the lists that are shown, if any
Steady(domains, ips) ==
    (proxyView.proxyDomains # <<>> \/ proxyView.proxyIPs # <<>>) =>
        /\ Len(domains) = Len(proxyView.proxyDomains)
        /\ Len(ips) = Len(proxyView.proxyIPs)

SteadyDetailsReturn(f, domains, ips) ==
    /\ Steady(domains, ips)
    /\ DetailsReturn(f, domains, ips)

\* handleProxyClick(rawName)
HandleProxyClick(rawName) ==
    /\ proxyView.mounted /\ ProxyViewSettled
    /\ rawName # proxyView.selectedProxy
    /\ proxyView' = [proxyView EXCEPT !.selectedProxy = rawName]
    /\ UNCHANGED <<probe, listTable, drill, pager>>
    /\ WebFrame

\* the parent passes another activeBackendId
ProxyBackendSwitch(b) ==
    /\ proxyView.mounted /\ ProxyViewSettled
    /\ b # proxyView.activeBackendId
    /\ proxyView' = [proxyView EXCEPT !.activeBackendId = b]
    /\ UNCHANGED <<probe, listTable, drill, pager>>
    /\ WebFrame

ProxyViewStart ==
    /\ probe = NoProbe
    /\ proxyView = ProxyViewMounted
    /\ listTable = Unmounted
    /\ drill = Unmounted
    /\ pager = Unmounted

-----------------------------------------------------------------------------
(* DomainStatsTable: client-side pagination of the domains prop            *)

PAGE_SIZE_OPTIONS == {10, 20, 50, 100}
DefaultPageSize == 10
\* the domains prop by the number of its rows whose name contains the search
\* text "a" and the number of its other rows
RowCounts == {0, 5, 25}
DomainLists == [matching : RowCounts, others : RowCounts]
PagerSearches == {"", "a"}

\* the component after its first render
PagerMounted(domains) ==
    [mounted |-> TRUE, domains |-> domains, page |-> 1,
     pageSize |-> DefaultPageSize, search |-> "", sortOrder |-> "desc"]

\* filteredDomains.length
FilteredLength(g) ==
    IF g.search = "" THEN g.domains.matching + g.domains.others
    ELSE g.domains.matching

\* Math.ceil(filteredDomains.length / pageSize)
TotalPages(g) == (FilteredLength(g) + g.pageSize - 1) \div g.pageSize

\* paginatedDomains.length
PaginatedLength(g) ==
    LET start == (g.page - 1) * g.pageSize
    IN  IF start >= FilteredLength(g) THEN 0
        ELSE Min(g.pageSize, FilteredLength(g) - start)

\* {filteredDomains.length > 0 && ( the footer )}
FooterShown == pager.mounted /\ FilteredLength(pager) > 0

PagerFrame ==
    /\ UNCHANGED <<probe, proxyView, listTable, drill>>
    /\ WebFrame

\* a page button
PageButton(p) ==
    /\ FooterShown
    /\ p \in 1..TotalPages(pager)
    /\ pager' = [pager EXCEPT !.page = p]
    /\ PagerFrame

\* setPage((p) => Math.max(1, p - 1)), disabled={page === 1}
PreviousPage ==
    /\ FooterShown
    /\ pager.page # 1
    /\ pager' = [pager EXCEPT !.page = IF @ - 1 < 1 THEN 1 ELSE @ - 1]
    /\ PagerFrame

\* setPage((p) => Math.min(totalPages, p + 1)), disabled={page === totalPages}
NextPage ==
    /\ FooterShown
    /\ pager.page # TotalPages(pager)
    /\ pager' = [pager EXCEPT !.page = Min(TotalPages(pager), @ + 1)]
    /\ PagerFrame

SetPageSize(size) ==
    /\ FooterShown
    /\ pager' = [pager EXCEPT !.pageSize = size, !.page = 1]
    /\ PagerFrame

\* onChange of the search input
SetSearch(text) ==
    /\ pager.mounted
    /\ text # pager.search
    /\ pager' = [pager EXCEPT !.search = text, !.page = 1]
    /\ PagerFrame

\* handleSort on the sorted column
StatsHandleSort ==
    /\ pager.mounted
    /\ pager' = [pager EXCEPT !.sortOrder = IF @ = "asc" THEN "desc" ELSE "asc",
                              !.page = 1]
    /\ PagerFrame

\* the parent passes another domains prop
ReplaceDomains(domains) ==
    /\ pager.mounted
    /\ domains # pager.domains
    /\ pager' = [pager EXCEPT !.domains = domains]
    /\ PagerFrame

PagerStart ==
    /\ probe = NoProbe
    /\ proxyView = Unmounted
    /\ listTable = Unmounted
    /\ drill = Unmounted
    /\ \E domains \in DomainLists : pager = PagerMounted(domains)

-----------------------------------------------------------------------------
(* Specifications                                                          *)

FlushInit == FlushStart /\ DeltaStart /\ QueryQuiet /\ AdminQuiet /\ WebQuiet

FlushNext ==
    \/ \E b \in Backends, bytes \in DeltaBytes : Apply(b, bytes)
    \/ \E b \in Backends : Drain(b)
    \/ TxCommit
    \/ TxBusy
    \/ TxConstraint
    \/ \E days \in CleanupDays, backendId \in Backends \cup {NoBackend} :
          Cleanup(days, backendId)
    \/ \E b \in Backends : ClearData(b)
    \/ StopSessions
    \/ CloseStore

SpecFlush == FlushInit /\ [][FlushNext]_vars

DeltaInit == DeltaStart /\ FlushStart /\ QueryQuiet /\ AdminQuiet /\ WebQuiet

DeltaNext ==
    \/ \E snap \in Snapshots, gap \in Gaps : Frame(snap, gap)
    \/ \E v \in BOOLEAN : SetBackendListening(v)
    \/ SupervisorSync

SpecDelta == DeltaInit /\ [][DeltaNext]_vars

QueryInit == QueryStart /\ DeltaStart /\ FlushStart /\ AdminQuiet /\ WebQuiet

QueryNext ==
    \/ GetStatsSummary
    \/ GetStatsDomains
    \/ GetStatsProxies
    \/ GetStatsRules
    \/ GetStatsCountries
    \/ GetStatsDevices
    \/ GetStatsHourly
    \/ GetStatsTrend
    \/ GetStatsTrendAggregated
    \/ Deliver

SpecQuery == QueryInit /\ [][QueryNext]_vars

BackendsInit == AdminQuiet /\ QueryQuiet /\ DeltaStart /\ FlushStart /\ WebQuiet

BackendsNext ==
    \/ GetBackends
    \/ GetBackendsActive
    \/ GetBackendsListening
    \/ \E name \in Names \cup {""}, token \in Tokens : PostBackends(name, token)
    \/ \E id \in RequestIds, field \in {"enabled", "listening"}, value \in BOOLEAN :
          PutBackendsId(id, field, value)
    \/ \E id \in RequestIds : DeleteBackendsId(id)
    \/ \E id \in RequestIds : PostBackendsActivate(id)
    \/ \E id \in RequestIds, v \in BOOLEAN : PostBackendsListening(id, v)
    \/ SyncSessions
    \/ Deliver

SpecBackends == BackendsInit /\ [][BackendsNext]_vars

MaintenanceInit == MaintenanceStart /\ DeltaStart /\ FlushStart /\ WebQuiet

MaintenanceNext ==
    \/ \E days \in DaysValues, backendId \in TargetValues : PostDbCleanup(days, backendId)
    \/ \E id \in ClearIds : PostClearData(id)
    \/ \E b \in Backends : FlushPending(b)
    \/ \E c \in ConnectionLogsValues, h \in HourlyStatsValues, a \in AutoCleanupValues :
          PutDbRetention(c, h, a)
    \/ GetBackendsActive
    \/ Deliver

SpecMaintenance == MaintenanceInit /\ [][MaintenanceNext]_vars

PageInit == PageStart /\ DeltaStart /\ FlushStart /\ AdminQuiet /\ WebQuiet

PageNext ==
    \/ GetStatsDomainsPage
    \/ GetStatsIpsPage
    \/ Deliver

SpecPage == PageInit /\ [][PageNext]_vars

ToleranceInit == ToleranceStart /\ DeltaStart /\ FlushStart /\ AdminQuiet /\ WebQuiet

ToleranceNext ==
    \/ GetStatsCountriesNearNow
    \/ Deliver

SpecTolerance == ToleranceInit /\ [][ToleranceNext]_vars

ProbeInit == ProbeStart /\ QueryQuiet /\ DeltaStart /\ FlushStart /\ WebQuiet

ProbeNext ==
    \/ \E url \in Urls : PostBackendsTest(url)
    \/ \E id \in {1, 2}, url \in Urls : PostBackendsIdTest(id, url)
    \/ WsOpen
    \/ WsError
    \/ \E code \in CloseCodes : WsClose(code)
    \/ Timeout
    \/ Tick
    \/ TestOver

SpecProbe == ProbeInit /\ [][ProbeNext]_vars

ListInit == ListStart /\ QueryQuiet /\ AdminQuiet /\ DeltaStart /\ FlushStart

ListNext ==
    \/ FetchDataEffect
    \/ \E f \in listTable.fetches : FetchDataReturns(f)
    \/ \E f \in listTable.fetches : FetchDataFails(f)
    \/ \E p \in Pages : SetCurrentPage(p)
    \/ HandleSort
    \/ \E b \in Backends : ListBackendSwitch(b)

SpecList == ListInit /\ [][ListNext]_vars

DrillInit == DrillStart /\ QueryQuiet /\ AdminQuiet /\ DeltaStart /\ FlushStart

DrillNext ==
    \/ RunDrillEffects
    \/ \E domain \in Rows : ToggleExpand(domain)
    \/ \E f \in drill.fetches : DrillFetchCompletes(f)
    \/ \E b \in Backends : ContextSwitch(b)

SpecDrill == DrillInit /\ [][DrillNext]_vars

ProxyViewInit == ProxyViewStart /\ QueryQuiet /\ AdminQuiet /\ DeltaStart /\ FlushStart

ProxyViewNext ==
    \/ RunProxyEffects
    \/ \E f \in proxyView.fetches : \E domains, ips \in DetailLists(f) :
            DetailsReturn(f, domains, ips)
    \/ \E f \in proxyView.fetches : DetailsFail(f)
    \/ \E rawName \in {Proxies[i] : i \in 1..Len(Proxies)} : HandleProxyClick(rawName)
    \/ \E b \in Backends : ProxyBackendSwitch(b)

SpecProxyView == ProxyViewInit /\ [][ProxyViewNext]_vars

\* data, backend, time range and selection left alone: only the effects and
\* the responses act, and each of them eventually does
ProxyRestNext ==
    \/ RunProxyEffects
    \/ \E f \in proxyView.fetches : \E domains, ips \in DetailLists(f) :
            SteadyDetailsReturn(f, domains, ips)
    \/ \E f \in proxyView.fetches : DetailsFail(f)

ProxyRestStart ==
    /\ probe = NoProbe
    /\ \E b \in Backends :
          proxyView = [ProxyViewMounted EXCEPT !.activeBackendId = b]
    /\ listTable = Unmounted
    /\ drill = Unmounted
    /\ pager = Unmounted

ProxyRestInit == ProxyRestStart /\ QueryQuiet /\ AdminQuiet /\ DeltaStart /\ FlushStart

SpecProxyRest ==
    /\ ProxyRestInit
    /\ [][ProxyRestNext]_vars
    /\ WF_vars(ProxyRestNext)

PagerInit == PagerStart /\ QueryQuiet /\ AdminQuiet /\ DeltaStart /\ FlushStart

PagerNext ==
    \/ \E p \in 1..MaxPage : PageButton(p)
    \/ PreviousPage
    \/ NextPage
    \/ \E size \in PAGE_SIZE_OPTIONS : SetPageSize(size)
    \/ \E text \in PagerSearches : SetSearch(text)
    \/ StatsHandleSort
    \/ \E domains \in DomainLists : ReplaceDomains(domains)

SpecPager == PagerInit /\ [][PagerNext]_vars

-----------------------------------------------------------------------------
(* Properties of the Delta Computer and the Session                        *)

RECURSIVE SumUp(_, _, _)
SumUp(id, i, j) ==
    IF i > j THEN 0 ELSE hist[j].out[id].uploadDelta + SumUp(id, i, j - 1)

RECURSIVE SumDown(_, _, _)
SumDown(id, i, j) ==
    IF i > j THEN 0 ELSE hist[j].out[id].downloadDelta + SumDown(id, i, j - 1)

Up(k, id) == hist[k].snap[id].upload
Down(k, id) == hist[k].snap[id].download
Present(k, id) == hist[k].snap[id].open
SameSession(i, j) == hist[i].sess = hist[j].sess

\* the id is in every snapshot of frames i..j, all of one Session
Continuous(id, i, j) ==
    \A k \in i..j : Present(k, id) /\ SameSession(i, k)

\* at frame k neither counter is below its value in frame k-1
NoDecreaseAt(id, k) ==
    Up(k, id) >= Up(k - 1, id) /\ Down(k, id) >= Down(k - 1, id)

Frames == 1..Len(hist)

\* C5 (as stated): for an id observed at frames t1 < t2 of one Session, the
\* deltas committed after t1 up to t2 sum to max(0, bytes(t2) - bytes(t1)),
\* separately for upload and download, whatever the snapshots in between.
C5_DeltasSumToMaxDiff ==
    \A id \in ConnIds : \A t1 \in Frames, t2 \in Frames :
        (t1 < t2 /\ Present(t1, id) /\ Present(t2, id) /\ SameSession(t1, t2))
        => /\ SumUp(id, t1 + 1, t2) = Max(0, Up(t2, id) - Up(t1, id))
           /\ SumDown(id, t1 + 1, t2) = Max(0, Down(t2, id) - Down(t1, id))

\* C5 (amended): for an id present in every snapshot from t1 to t2 of one
\* Session, if neither counter decreases at any snapshot after t1 up to t2 the
\* committed deltas sum to bytes(t2) - bytes(t1) for upload and for download;
\* a snapshot at which either counter decreases commits zero for both.
C5_DeltasSumOverMonotoneRun ==
    \A id \in ConnIds : \A t1 \in Frames, t2 \in Frames :
        (t1 < t2 /\ Continuous(id, t1, t2))
        => /\ (\A k \in (t1 + 1)..t2 : NoDecreaseAt(id, k))
                => /\ SumUp(id, t1 + 1, t2) = Up(t2, id) - Up(t1, id)
                   /\ SumDown(id, t1 + 1, t2) = Down(t2, id) - Down(t1, id)
           /\ \A k \in (t1 + 1)..t2 :
                ~NoDecreaseAt(id, k)
                => hist[k].out[id].uploadDelta = 0 /\ hist[k].out[id].downloadDelta = 0

\* a run of three snapshots in which both counters grow, and one with a reset
C5_Witness ==
    /\ Len(hist) = 3
    /\ Continuous("c1", 1, 3)
    /\ Up(1, "c1") = 0 /\ Up(2, "c1") = 50 /\ Up(3, "c1") = 100
    /\ Down(1, "c1") = 0 /\ Down(2, "c1") = 0 /\ Down(3, "c1") = 1000
    /\ SumUp("c1", 2, 3) = 100 /\ SumDown("c1", 2, 3) = 1000

\* C6: for a connection first seen at frame k and present with non-decreasing
\* counters in every later frame up to n, the emitted uploadDelta values sum to
\* the upload counter of frame n, and likewise for download: the first
\* snapshot contributes the initial counters.
C6_MonotoneSumEqualsLast ==
    \A id \in ConnIds : \A k \in Frames, n \in Frames :
        (/\ k <= n
         /\ hist[k].out[id].isNew
         /\ Continuous(id, k, n)
         /\ \A j \in (k + 1)..n : NoDecreaseAt(id, j))
        => /\ SumUp(id, k, n) = Up(n, id)
           /\ SumDown(id, k, n) = Down(n, id)

C6_Witness ==
    /\ Len(hist) = 3
    /\ hist[1].out["c1"].isNew
    /\ Continuous("c1", 1, 3)
    /\ Up(1, "c1") = 50 /\ Up(2, "c1") = 80 /\ Up(3, "c1") = 100
    /\ Down(1, "c1") = 1000 /\ Down(3, "c1") = 1000
    /\ SumUp("c1", 1, 3) = 100

\* C7: when the upload counter of a known connection is lower than in the
\* previous snapshot the emitted uploadDelta is 0 and the next delta is
\* measured against the lower value; no emitted delta is negative; uploads
\* 100, 50, 80 emit 100, 0, 30 and the aggregate ends at 130.
C7_CounterResetSafe ==
    /\ \A id \in ConnIds : \A k \in Frames :
          /\ hist[k].out[id].uploadDelta >= 0
          /\ hist[k].out[id].downloadDelta >= 0
          /\ (k > 1 /\ Continuous(id, k - 1, k) /\ Up(k, id) < Up(k - 1, id))
             => /\ hist[k].out[id].uploadDelta = 0
                /\ (k + 1 \in Frames /\ Continuous(id, k, k + 1) /\ NoDecreaseAt(id, k + 1))
                   => hist[k + 1].out[id].uploadDelta = Up(k + 1, id) - Up(k, id)
    /\ (/\ Len(hist) = 3
        /\ Continuous("c1", 1, 3)
        /\ hist[1].out["c1"].isNew
        /\ Up(1, "c1") = 100 /\ Up(2, "c1") = 50 /\ Up(3, "c1") = 80
        /\ \A k \in 1..3 : Down(k, "c1") = 0)
       => /\ hist[1].out["c1"].uploadDelta = 100
          /\ hist[2].out["c1"].uploadDelta = 0
          /\ hist[3].out["c1"].uploadDelta = 30
          /\ agg["c1"].upload = 130

C7_Witness ==
    /\ Len(hist) = 3
    /\ Continuous("c1", 1, 3)
    /\ hist[1].out["c1"].isNew
    /\ Up(1, "c1") = 100 /\ Up(2, "c1") = 50 /\ Up(3, "c1") = 80
    /\ \A k \in 1..3 : Down(k, "c1") = 0
    /\ agg["c1"].upload = 130

\* the first frame of a Session started after an earlier one
Resumed(k) ==
    /\ hist[k].sess > 1
    /\ (k = 1 \/ hist[k - 1].sess < hist[k].sess)

\* C8: in the first frame of a Session started by turning listening on again,
\* a connection that was already in the last snapshot before the toggle is
\* taken as a baseline: it adds to the aggregates no byte that the earlier
\* Session has counted (zero delta, and in no case more than the growth of its
\* counters since that snapshot).
C8_ResumeNoDoubleCount ==
    \A id \in ConnIds : \A k \in Frames :
        (k > 1 /\ Resumed(k) /\ Present(k, id) /\ Present(k - 1, id) /\ NoDecreaseAt(id, k))
        => /\ hist[k].out[id].uploadDelta <= Up(k, id) - Up(k - 1, id)
           /\ hist[k].out[id].downloadDelta <= Down(k, id) - Down(k - 1, id)

-----------------------------------------------------------------------------
(* Properties of the Realtime Cache, the Flusher and the Store             *)

DimIndex(dim) == CHOOSE i \in 1..Len(DimOrder) : DimOrder[i] = dim

\* bytes of the drained batch whose transaction is still outstanding
InFlight(b, dim) ==
    IF flusher.pc = "tx" /\ flusher.backend = b /\ DimIndex(dim) >= flusher.di
    THEN flusher.batch[dim]
    ELSE 0

\* an overlaid read of one tuple: the Store value plus the cache's pending value
OverlayRead(b, dim) == store[b][dim] + cache[b][dim]

C4_NoDoubleCount ==
    \A b \in Backends : \A dim \in Dims : OverlayRead(b, dim) <= committed[b]

\* a read that sums a flushed delta and a delta applied after the drain, with
\* the failed domain transaction of the first re-applied
C4_Witness ==
    /\ committed[1] = 500
    /\ store[1]["hourly"] = 250 /\ cache[1]["hourly"] = 250
    /\ store[1]["domain"] = 0 /\ cache[1]["domain"] = 500
    /\ OverlayRead(1, "hourly") = 500 /\ OverlayRead(1, "domain") = 500
    /\ flusher.pc = "idle"

\* C9 (as stated): after a graceful stop the Realtime Cache of every backend is
\* empty and the Store holds every byte observed before the stop, whatever
\* flushes or flush failures preceded it.
C9_StopLeavesAllInStore ==
    phase = "closed" =>
        \A b \in Backends : \A dim \in Dims :
            cache[b][dim] = 0 /\ store[b][dim] = sinceClear[b]

\* C9 (amended): after a graceful stop every byte observed before the stop is
\* in the Store, except the rows discarded after a fatal Store error or deleted
\* by a data clear and the rows that a failed transaction of the final flush
\* returned to the Realtime Cache; the cache holds nothing but such rows.
C9_StopAccountsForAllBytes ==
    phase = "closed" =>
        \A b \in Backends : \A dim \in Dims :
            /\ cache[b][dim] > 0 => <<b, dim>> \in finalReturned
            /\ store[b][dim] + cache[b][dim] + removed[b][dim] = committed[b]

\* a stop after a failed periodic flush: everything reached the Store
C9_Witness ==
    /\ phase = "closed"
    /\ committed[1] = 500 /\ committed[2] = 0
    /\ \A dim \in Dims : store[1][dim] = 500 /\ cache[1][dim] = 0 /\ removed[1][dim] = 0
    /\ finalDone = {1}

-----------------------------------------------------------------------------
(* Properties of the Query API                                             *)

\* the request as the claims read it: what it carries and what it names
Supplied(p) == p.kind \notin {"absent", "empty"}
Parseable(p) == p.kind \in {"iso", "offset"}
Instant(p) == IF p.kind = "offset" THEN p.n - HourMs ELSE p.n
Windowed(q) ==
    /\ Parseable(q.start) /\ Parseable(q.end)
    /\ Instant(q.start) <= Instant(q.end)
BadRange(q) ==
    \/ Supplied(q.start) # Supplied(q.end)
    \/ /\ Supplied(q.start) /\ Supplied(q.end)
       /\ \/ ~Parseable(q.start)
          \/ ~Parseable(q.end)
          \/ Instant(q.start) > Instant(q.end)
RequestedWindow(q) == Window(Instant(q.start), Instant(q.end))
RequestedBackend(q) == IF Supplied(q.backendId) THEN q.backendId.n ELSE db.active

\* the tolerance of the time-overlay policy: default 120 s, minimum 10 s
Tolerance ==
    IF env.kind = "num" THEN Max(MinToleranceMs, env.n) ELSE DefaultToleranceMs
Historical(q) == Windowed(q) /\ Instant(q.end) < NowMs - Tolerance
CoversNow(q) == Windowed(q) /\ Instant(q.start) <= NowMs /\ NowMs <= Instant(q.end)

Answered == request.endpoint # "none" /\ Len(reply.sends) >= 1
\* the response that leaves: the first send on the reply
Wire == reply.sends[1]
Served(endpoint) == Answered /\ request.endpoint = endpoint /\ Wire.status = 200

\* the Store query result of an endpoint for a backend and a window
StoreOnly(endpoint, b, tr) ==
    CASE endpoint = "summary" ->
           [backend |-> b,
            totalConnections |-> DbGetSummary(b, tr).totalConnections,
            totalUpload |-> DbGetSummary(b, tr).totalUpload,
            totalDownload |-> DbGetSummary(b, tr).totalDownload,
            totalDomains |-> DbGetSummary(b, tr).uniqueDomains,
            totalIPs |-> DbGetSummary(b, tr).uniqueIPs,
            totalRules |-> Len(DbGetRuleStats(b, tr)),
            totalProxies |-> Len(DbGetProxyStats(b, tr)),
            todayUpload |-> DbGetTrafficInRange(b, tr).upload,
            todayDownload |-> DbGetTrafficInRange(b, tr).download,
            topDomains |-> DbGetTopDomains(b, SummaryTopN, tr),
            topIPs |-> DbGetTopIPs(b, SummaryTopN, tr),
            proxyStats |-> DbGetProxyStats(b, tr),
            ruleStats |-> DbGetRuleStats(b, tr),
            hourlyStats |-> DbGetHourlyStats(b, SummaryHours, tr)]
      [] endpoint = "proxies" -> DbGetProxyStats(b, tr)
      [] endpoint = "countries" -> DbGetCountryStats(b, DefaultLimit, tr)
      [] endpoint = "trend" -> DbGetTrafficTrend(b, DefaultMinutes, tr)
      [] endpoint = "trendAggregated" ->
           DbGetTrafficTrendAggregated(b, DefaultMinutes, 1, tr)

OverlaidEndpoints == {"summary", "proxies", "countries", "trend", "trendAggregated"}

\* C1: a request with a valid window whose end is earlier than now minus the
\* tolerance gets, on /summary, /proxies, /countries, /trend and
\* /trend/aggregated, exactly the Store query result for that window, and no
\* Realtime Cache call is made, whatever the cache of the backend holds.
C1_HistoricalIsStoreOnly ==
    (/\ Answered
     /\ request.endpoint \in OverlaidEndpoints
     /\ Wire.status = 200
     /\ Historical(request.query))
        => /\ Wire.data = StoreOnly(request.endpoint, RequestedBackend(request.query),
                                    RequestedWindow(request.query))
           /\ reply.merges = {}
           /\ reply.range = RequestedWindow(request.query)

\* C1 witness: a summary of a historical window that holds Store traffic is
\* served while the cache of the backend holds pending traffic.
C1_Witness ==
    /\ Served("summary")
    /\ Historical(request.query)
    /\ Wire.data.totalDownload > 0
    /\ RtTotal(RequestedBackend(request.query)).download > 0
    /\ Wire.data.totalDownload
         = DbGetSummary(RequestedBackend(request.query),
                        RequestedWindow(request.query)).totalDownload

\* per key of a dimension: the Store's traffic in the window, and the pending
\* traffic of the cache
StoreBy(b, tr, keyOf, k) ==
    SumTraffic({i \in Identities : keyOf[i] = k}, DbTraffic(b, tr))
PendingBy(b, keyOf, k) ==
    SumTraffic({i \in Identities : keyOf[i] = k}, CacheOf(b))
KeysIn(keyOf) == {keyOf[i] : i \in Identities}

ShowsStorePlusPending(list, b, tr, keyOf) ==
    \A k \in KeysIn(keyOf) :
        Shown(list, k) = AddTraffic(StoreBy(b, tr, keyOf, k), PendingBy(b, keyOf, k))
ShowsStoreAlone(list, b, tr, keyOf) ==
    \A k \in KeysIn(keyOf) : Shown(list, k) = StoreBy(b, tr, keyOf, k)
\* the pending traffic of an hour belongs to the hour of now
HourlyShowsStorePlusPending(list, b, tr) ==
    \A k \in KeysIn(BucketOf) :
        Shown(list, k) = AddTraffic(StoreBy(b, tr, BucketOf, k),
                                    IF k = HourNow THEN RtTotal(b) ELSE ZeroTraffic)

TotalsShowStorePlusPending(data, b, tr) ==
    LET s == SumTraffic(Identities, DbTraffic(b, tr))
        p == RtTotal(b)
    IN  /\ data.totalUpload = s.upload + p.upload
        /\ data.totalDownload = s.download + p.download
        /\ data.totalConnections = s.connections + p.connections
        /\ data.todayUpload = s.upload + p.upload
        /\ data.todayDownload = s.download + p.download

SummaryCoveringNow == Served("summary") /\ CoversNow(request.query)

\* C2 as stated: for a summary of a window covering now, the totals,
\* topDomains, topIPs, proxyStats, ruleStats, hourlyStats and today all equal
\* the Store value plus the pending value of the cache, per field and per key.
C2_AllPartsOverlaid ==
    SummaryCoveringNow =>
        LET b == RequestedBackend(request.query)
            tr == RequestedWindow(request.query)
        IN  /\ TotalsShowStorePlusPending(Wire.data, b, tr)
            /\ ShowsStorePlusPending(Wire.data.topDomains, b, tr, HostOf)
            /\ ShowsStorePlusPending(Wire.data.topIPs, b, tr, IpOf)
            /\ ShowsStorePlusPending(Wire.data.proxyStats, b, tr, ChainOf)
            /\ ShowsStorePlusPending(Wire.data.ruleStats, b, tr, RuleOf)
            /\ HourlyShowsStorePlusPending(Wire.data.hourlyStats, b, tr)

\* C2 amended: for a summary of a window covering now, the totals, today,
\* topDomains, topIPs and proxyStats equal the Store value plus the pending
\* value of the cache, per field and per key, while ruleStats and hourlyStats
\* carry the Store values alone.
C2_OverlaidPartsExact ==
    SummaryCoveringNow =>
        LET b == RequestedBackend(request.query)
            tr == RequestedWindow(request.query)
        IN  /\ TotalsShowStorePlusPending(Wire.data, b, tr)
            /\ ShowsStorePlusPending(Wire.data.topDomains, b, tr, HostOf)
            /\ ShowsStorePlusPending(Wire.data.topIPs, b, tr, IpOf)
            /\ ShowsStorePlusPending(Wire.data.proxyStats, b, tr, ChainOf)
            /\ ShowsStoreAlone(Wire.data.ruleStats, b, tr, RuleOf)
            /\ ShowsStoreAlone(Wire.data.hourlyStats, b, tr, BucketOf)

\* C2 witness: the Store holds download 1000 and the cache pending download
\* 250 for the backend, and the summary of a window covering now shows
\* totalDownload 1250.
C2_Witness ==
    /\ SummaryCoveringNow
    /\ DbGetSummary(RequestedBackend(request.query),
                    RequestedWindow(request.query)).totalDownload = 1000
    /\ RtTotal(RequestedBackend(request.query)).download = 250
    /\ Wire.data.totalDownload = 1250

RangeRefused == Answered /\ BadRange(request.query)
NoStatisticsRead == reply.queries = {} /\ reply.merges = {}

Acceptance ==
    /\ (/\ Answered
        /\ Windowed(request.query)
        /\ Instant(request.query.start) = Instant(request.query.end))
           => Wire.status # 400
    /\ (/\ Answered
        /\ ~Supplied(request.query.start)
        /\ ~Supplied(request.query.end))
           => /\ Wire.status # 400
              /\ reply.queries # {} => reply.range = Unwindowed

\* C10 as stated: a request with exactly one of start and end, with an
\* unparseable value, or with start later than end is answered 400 and reads
\* neither the Store nor the Realtime Cache; start equal to end is accepted and
\* a request with neither runs unwindowed.
C10_BadRangeReadsNothing ==
    /\ RangeRefused =>
          /\ Wire.status = 400
          /\ reply.lookups = 0
          /\ NoStatisticsRead
    /\ Acceptance

\* C10 amended: such a request is answered 400 and runs no statistics query
\* on the Store and no Realtime Cache call; its only Store access is the
\* active-backend lookup made when it carries no backendId; start equal to end
\* is accepted and a request with neither runs unwindowed.
C10_BadRangeRunsNoQuery ==
    /\ RangeRefused =>
          /\ Wire.status = 400
          /\ reply.lookups = (IF Supplied(request.query.backendId) THEN 0 ELSE 1)
          /\ NoStatisticsRead
    /\ Acceptance

\* C10 witness: a request with an end and no start, naming no backend, is
\* answered 400 after the active-backend lookup.
C10_Witness ==
    /\ RangeRefused
    /\ ~Supplied(request.query.start)
    /\ Supplied(request.query.end)
    /\ ~Supplied(request.query.backendId)
    /\ Wire.status = 400
    /\ reply.lookups = 1

\* the stats requests with an acceptable time range
RangeAccepted == Answered /\ ~BadRange(request.query)
NamesStored(q) == q.backendId.kind = "num" /\ q.backendId.n \in Backends
NamesUnknown(q) == q.backendId.kind = "num" /\ q.backendId.n \notin Backends
NamesNone(q) == ~Supplied(q.backendId)

\* C11: every stats endpoint resolves its backend as the backendId parameter
\* when given, else the active backend, and answers 404 when the request names
\* a backendId that no stored backend has, and when it names none while no
\* backend is active.
C11_UnknownBackendIs404 ==
    RangeAccepted =>
        /\ NamesUnknown(request.query) => Wire.status = 404
        /\ (NamesNone(request.query) /\ db.active = NoBackend) => Wire.status = 404
        /\ (\/ NamesStored(request.query)
            \/ NamesNone(request.query) /\ db.active # NoBackend)
              => /\ Wire.status = 200
                 /\ request.endpoint = "summary"
                      => Wire.data.backend = RequestedBackend(request.query)
                 /\ request.endpoint = "domains"
                      => Wire.data = DbGetDomainStatsPaginated(
                                        RequestedBackend(request.query), reply.range)

\* the requested window is time-proximate: its end is not earlier than now
\* minus the tolerance
Proximate(q) == Windowed(q) /\ Instant(q.end) >= NowMs - Tolerance
NoWindow(q) == ~Supplied(q.start) /\ ~Supplied(q.end)
NowBucket == NowMs - (NowMs % 60000)

\* per time bucket of a trend: the Store's row, plus the pending traffic in
\* the bucket of now
TrendShowsStorePlusPending(list, b, tr) ==
    \A k \in KeysIn(BucketOf) \cup {NowBucket} :
        Shown(list, k) = AddTraffic(Shown(DbGetTrafficTrend(b, DefaultMinutes, tr), k),
                                    IF k = NowBucket THEN RtTotal(b) ELSE ZeroTraffic)

\* what an endpoint shows when the pending deltas are overlaid on its Store
\* result
ShowsOverlay(endpoint, data, b, tr) ==
    CASE endpoint = "countries" -> ShowsStorePlusPending(data, b, tr, CountryOf)
      [] endpoint = "devices" -> ShowsStorePlusPending(data, b, tr, DeviceOf)
      [] endpoint = "hourly" -> HourlyShowsStorePlusPending(data, b, tr)
      [] endpoint \in {"trend", "trendAggregated"} ->
           TrendShowsStorePlusPending(data, b, tr)

StoreResult(endpoint, b, tr) ==
    CASE endpoint = "devices" -> DbGetDevices(b, DefaultLimit, tr)
      [] endpoint = "hourly" -> DbGetHourlyStats(b, SummaryHours, tr)
      [] OTHER -> StoreOnly(endpoint, b, tr)

ServedWindowed(endpoints) ==
    /\ Answered
    /\ request.endpoint \in endpoints
    /\ Wire.status = 200
    /\ Windowed(request.query)

\* C18 as stated: /countries, /devices, /hourly, /trend and /trend/aggregated
\* overlay the pending deltas of the Realtime Cache on the Store result when
\* the window is time-proximate, and return Store data alone otherwise.
C18_FiveEndpointsOverlay ==
    ServedWindowed({"countries", "devices", "hourly", "trend", "trendAggregated"}) =>
        LET b == RequestedBackend(request.query)
            tr == RequestedWindow(request.query)
        IN  IF Proximate(request.query)
            THEN ShowsOverlay(request.endpoint, Wire.data, b, tr)
            ELSE Wire.data = StoreResult(request.endpoint, b, tr)

\* C18 amended: /countries, /trend and /trend/aggregated overlay the pending
\* deltas when the window is time-proximate and return Store data alone
\* otherwise; /devices and /hourly return Store data alone for every window.
C18_ThreeEndpointsOverlay ==
    /\ ServedWindowed({"countries", "trend", "trendAggregated"}) =>
          LET b == RequestedBackend(request.query)
              tr == RequestedWindow(request.query)
          IN  IF Proximate(request.query)
              THEN /\ ShowsOverlay(request.endpoint, Wire.data, b, tr)
                   /\ reply.merges # {}
              ELSE /\ Wire.data = StoreResult(request.endpoint, b, tr)
                   /\ reply.merges = {}
    /\ (Answered /\ request.endpoint \in {"devices", "hourly"} /\ Wire.status = 200) =>
          /\ Wire.data = StoreResult(request.endpoint,
                                     RequestedBackend(request.query), reply.range)
          /\ reply.merges = {}

\* C18 witness: /countries is served for a time-proximate window while the
\* cache holds pending traffic of a country the Store has rows of.
C18_Witness ==
    /\ ServedWindowed({"countries"})
    /\ Proximate(request.query)
    /\ \E k \in KeysIn(CountryOf) :
          /\ PendingBy(RequestedBackend(request.query), CountryOf, k).download > 0
          /\ StoreBy(RequestedBackend(request.query), RequestedWindow(request.query),
                     CountryOf, k).download > 0
          /\ Shown(Wire.data, k).download
               = StoreBy(RequestedBackend(request.query),
                         RequestedWindow(request.query), CountryOf, k).download
                 + PendingBy(RequestedBackend(request.query), CountryOf, k).download

-----------------------------------------------------------------------------
(* Properties of the backend management API                                *)

ActiveIds == {r.id : r \in {x \in backends : x.is_active}}
AtMostOneActive == Cardinality(ActiveIds) <= 1
Created == Served("postBackends")
MutatingEndpoints ==
    {"postBackends", "putBackends", "deleteBackends", "postActivate", "postListening"}
\* a mutating backends call has completed and its response is about to leave
MutationCompleted ==
    Answered /\ request.endpoint \in MutatingEndpoints /\ Wire.status = 200

\* C15: after any sequence of create, activate, update and delete calls at
\* most one backend is active; the first backend created becomes the active
\* one and is reported with isActive true; a backend created while others
\* exist is reported with isActive false and leaves the active backend as it
\* was.
C15_AtMostOneActive ==
    [][/\ AtMostOneActive'
       /\ (IdleServer /\ Created') =>
            LET id == Wire'.data.id IN
            /\ id \notin {r.id : r \in backends}
            /\ IF backends = {}
               THEN Wire'.data.isActive = TRUE /\ ActiveIds' = {id}
               ELSE Wire'.data.isActive = FALSE /\ ActiveIds' = ActiveIds]_vars

\* a second backend has just been created next to an active first one
C15_Witness ==
    /\ Created
    /\ Wire.data.isActive = FALSE
    /\ Cardinality(backends) = 2
    /\ ActiveIds # {} /\ ActiveIds # {Wire.data.id}

\* C16: a POST /api/backends whose name a stored backend already has is
\* answered 409 and changes neither the backends table nor the Sessions; a
\* POST with a name no stored backend has, such as the name of a backend that
\* was deleted, is answered 200 and stores a backend of that name.
C16_DuplicateNameConflicts ==
    [][(IdleServer /\ request'.endpoint = "postBackends" /\ request'.query.name # "") =>
          IF NameTaken(backends, request'.query.name)
          THEN /\ Wire'.status = 409
               /\ backends' = backends /\ nextId' = nextId /\ sessions' = sessions
          ELSE /\ Wire'.status = 200
               /\ \E r \in backends' : r.id = Wire'.data.id /\ r.name = request'.query.name
               /\ backends \subseteq backends']_vars

\* a create refused for its name while the backend of that name is stored
C16_Witness ==
    /\ Answered /\ request.endpoint = "postBackends"
    /\ Wire.status = 409
    /\ NameTaken(backends, request.query.name)

\* C17 (as stated): when a mutating backends API call has completed, the
\* running Sessions are exactly the stored backends that are enabled and
\* listening.
C17_SessionsFollowEveryCall ==
    MutationCompleted => sessions = {r.id : r \in DbGetListeningBackends}

\* non-empty token values, one of them never stored in the model's table
Secrets == {"s1", "s2"}
\* the tables that differ from rows only in the value of non-empty tokens
TokenVariants(rows) ==
    {{IF r.token = "" THEN r ELSE [r EXCEPT !.token = f[r.id]] : r \in rows} :
        f \in [RequestIds -> Secrets]}
ListEndpoints == {"getBackends", "getBackendsListening"}
\* the body the endpoint answers over a backends table
BodyOf(endpoint, rows) ==
    CASE endpoint = "getBackends" -> BackendsBody(rows)
      [] endpoint = "getBackendsActive" -> ActiveBody(rows)
      [] endpoint = "getBackendsListening" -> ListeningBody(rows)
\* what a response shows of a backend: no token field, and hasToken true
\* exactly when the stored token is non-empty
ShowsNoToken(e) ==
    /\ "token" \notin DOMAIN e
    /\ \E r \in backends : r.id = e.id /\ (e.hasToken <=> r.token # "")

\* C19: the responses of GET /api/backends, /api/backends/active and
\* /api/backends/listening contain no token field; over two backends tables
\* that differ only in the value of a non-empty token the response is the
\* same; and hasToken is true exactly for the backends whose stored token is
\* non-empty.
C19_TokensNeverReturned ==
    (Answered /\ request.endpoint \in ListEndpoints \cup {"getBackendsActive"}) =>
        /\ Wire = BodyOf(request.endpoint, backends)
        /\ \A v \in TokenVariants(backends) :
              BodyOf(request.endpoint, v) = BodyOf(request.endpoint, backends)
        /\ request.endpoint \in ListEndpoints =>
              \A i \in 1..Len(Wire.data) : ShowsNoToken(Wire.data[i])
        /\ (request.endpoint = "getBackendsActive" /\ Wire.error = "") =>
              ShowsNoToken(Wire.data)

\* the list of two backends, one with a token and one without
C19_Witness ==
    /\ Answered /\ request.endpoint = "getBackends"
    /\ Len(Wire.data) = 2
    /\ \E i, j \in 1..2 : Wire.data[i].hasToken /\ ~Wire.data[j].hasToken
    /\ \E r \in backends : r.token \in Secrets

-----------------------------------------------------------------------------
(* Properties of the maintenance API                                       *)

\* the handler of the request just taken has run
Handled(endpoint) == IdleServer /\ request'.endpoint = endpoint
\* the totals an overlaid summary shows for a backend
OverlaidTotals(b) == RtApplySummaryDelta(b, DbGetSummary(b, Unwindowed))
Emptied(b) == StoreOf(b) = NoTraffic /\ CacheOf(b) = NoTraffic

\* C12 (as stated): every response that carries an error body has a 4xx or
\* 5xx status; POST /api/db/cleanup with missing, non-numeric or negative days
\* is answered with an error and changes neither the Store nor the Realtime
\* Cache, and GET /api/backends/active with no active backend is answered
\* with an error.
C12_ErrorsAreNever2xx ==
    [][(IdleServer /\ Answered') =>
          /\ Wire'.error # "" => Wire'.status >= 400
          /\ (request'.endpoint = "postDbCleanup" /\ InvalidDays(request'.query.days)) =>
                Wire'.error # "" /\ db' = db /\ realtimeStore' = realtimeStore
          /\ (request'.endpoint = "getBackendsActive" /\ DbGetActiveBackend = {}) =>
                Wire'.error # ""]_vars

\* the backends a cleanup request addresses
CleanupScope(backendId) ==
    IF backendId.kind = "num" THEN {backendId.n} ELSE {r.id : r \in backends}

\* C13: POST /api/db/cleanup with days = 0 and backendId = X is answered 200
\* and, when the response is produced, the Store holds no row of X and the
\* Realtime Cache of X is empty, while the rows and the cache of every other
\* backend are as before; without backendId the same holds for all backends.
C13_CleanupZeroWipes ==
    [][(Handled("postDbCleanup") /\ request'.query.days = Num(0)) =>
          /\ Wire'.status = 200 /\ Wire'.error = ""
          /\ \A b \in Backends :
                IF b \in CleanupScope(request'.query.backendId)
                THEN /\ db'.traffic[b] = NoTraffic
                     /\ realtimeStore'[b] = NoTraffic
                ELSE /\ db'.traffic[b] = db.traffic[b]
                     /\ realtimeStore'[b] = realtimeStore[b]]_vars

\* backend 1 wiped by a cleanup addressed to it, backend 2 with its rows and
\* its pending deltas
C13_Witness ==
    /\ Served("postDbCleanup")
    /\ request.query.days = Num(0) /\ request.query.backendId = Num(1)
    /\ Emptied(1)
    /\ StoreOf(2) # NoTraffic /\ CacheOf(2) # NoTraffic

\* C14 (as stated): when POST /api/backends/:id/clear-data has answered 200,
\* the backend has no row in the Store and nothing pending in the Realtime
\* Cache, so an overlaid summary shows no byte of it.
C14_ClearDataWipesCache ==
    Served("postClearData") =>
        /\ Emptied(request.query.id)
        /\ OverlaidTotals(request.query.id).totalDownload = 0

InRange(v, lo, hi) == v.kind = "num" /\ lo <= v.n /\ v.n <= hi
RetentionInRange ==
    /\ InRange(retention.connectionLogsDays, MinConnectionLogsDays, MaxConnectionLogsDays)
    /\ InRange(retention.hourlyStatsDays, MinHourlyStatsDays, MaxHourlyStatsDays)
Given(v) == v.kind = "num"

-----------------------------------------------------------------------------
(* Properties of the paginated list queries                                *)

PageServed == Answered /\ request.endpoint \in {"domainsPage", "ipsPage"} /\ Wire.status = 200
PageKey == IF request.endpoint = "domainsPage" THEN HostOf ELSE IpOf
\* the offset and the limit the handler forwards for the request
Forwarded(p, default) == IF p.kind = "num" /\ p.n # 0 THEN p.n ELSE default
\* the rows of the requested backend that match the search, unpaginated
Unpaginated ==
    {i \in Identities :
        /\ db.traffic[request.query.backendId.n][i] # ZeroTraffic
        /\ request.query.search \in {"", PageKey[i]}}

-----------------------------------------------------------------------------
(* Properties of the overlay tolerance                                     *)

EnvIsNumber == env.kind = "num"
Overlaid == reply.merges # {}

-----------------------------------------------------------------------------
(* Properties of the backend connection test                               *)

\* open, error, timeout, or a close with a code other than 1000 and 1005
Deciding(e) == e.name \in {"open", "error", "timeout"} \/ e.code \notin {0, 1000, 1005}
\* the first of open, error, abnormal close and timeout that has happened
RECURSIVE FirstDeciding(_)
FirstDeciding(events) ==
    IF events = <<>> THEN "none"
    ELSE IF Deciding(Head(events)) THEN Head(events).name
    ELSE FirstDeciding(Tail(events))
WebSocketCreated == probe.ws # "none"

\* C22: once the WebSocket of a connection test is created, the test answers
\* with exactly one {success, message} result, no later than 5 s after the
\* creation; the first of open, error, abnormal close and timeout decides the
\* result, and success is true only if open came first.
C22_TestAnswersWithinTimeout ==
    WebSocketCreated =>
        LET first == FirstDeciding(probe.events) IN
        /\ Len(reply.sends) <= 1
        /\ first = "none" =>
              /\ reply = NoReply
              /\ probe.timer /\ probe.elapsed <= 5000
        /\ first # "none" =>
              /\ Len(reply.sends) = 1
              /\ Wire.status = 200
              /\ DOMAIN Wire.data = {"success", "message"}
              /\ Wire.data.success <=> first = "open"
              /\ first = "timeout" => Wire.data.message = "Connection timeout"
              /\ probe.answeredAt <= 5000

\* open decided; the timer fired afterwards without changing the answer
C22_Witness ==
    /\ WebSocketCreated
    /\ Len(probe.events) >= 3
    /\ probe.events[1].name = "open" /\ probe.events[Len(probe.events)].name = "timeout"
    /\ Wire.data.success
    /\ probe.elapsed = TimeoutMs

-----------------------------------------------------------------------------
(* Properties of the dashboard components                                  *)

\* the fetch issued last
LatestFetch(t) == t.issued
FetchInFlight(t, id) == \E f \in t.fetches : f.id = id
\* the fetch that completes in the step
Completing(t, u) == {f \in t.fetches : ~\E g \in u.fetches : g.id = f.id}

\* C27: data and total are only ever written by the completion of the list
\* request issued last: the response or failure of a request issued for
\* earlier page, sort, search, backend or time-range values changes neither,
\* and when the request issued last has completed loading is false.
C27_ListShowsLatestRequest ==
    [][/\ (listTable'.data # listTable.data \/ listTable'.total # listTable.total) =>
             \E f \in Completing(listTable, listTable') : f.id = LatestFetch(listTable)
       /\ \A f \in Completing(listTable, listTable') :
             f.id = LatestFetch(listTable) =>
                 /\ ~listTable'.loading
                 /\ listTable'.data \in {ResultOf(f).data, <<>>}]_vars

\* C27 witness: two list requests were issued, both have completed, and the
\* table shows the response of the second with loading false
C27_Witness ==
    /\ listTable.mounted
    /\ listTable.issued = 2
    /\ listTable.fetches = {}
    /\ listTable.data = <<2>>
    /\ ~listTable.loading

\* C24 (as stated): the effects that run only because a drill-down request
\* has completed, with no toggle and no change of backend, time range or
\* filters since the effects last ran, issue no further request.
C24_CompletionTriggersNoRequest ==
    [][drill.fetchDue = {"completion"} => drill'.issued = drill.issued]_vars

\* C28 (as stated): every entry of proxyStats was fetched under the current
\* context: the response to a request issued before the context changed is
\* never stored after the change.
C28_CacheIsOfCurrentContext ==
    (drill.mounted /\ ~drill.contextDue) =>
        \A d \in Rows :
            drill.proxyStats[d].cached =>
                drill.proxyStats[d].context = drill.activeBackendId

\* C29 (as stated): the loading marker names a row only while a fetch for that
\* row is in flight, the completion of a fetch for one row never clears the
\* marker set for another row, and once every fetch has completed the marker
\* is null.
C29_MarkerFollowsItsFetch ==
    /\ [](drill.mounted =>
            (drill.proxyStatsLoading # NoRow =>
                \E f \in drill.fetches : f.domain = drill.proxyStatsLoading))
    /\ [][\A f \in drill.fetches :
            (/\ f \notin drill'.fetches
             /\ drill.proxyStatsLoading \notin {NoRow, f.domain})
                => drill'.proxyStatsLoading = drill.proxyStatsLoading]_vars

\* the component at rest: no effect due, no request in flight, loading false
ProxyAtRest ==
    /\ ProxyViewSettled
    /\ proxyView.fetches = {}
    /\ ~proxyView.loading

C26_StaleOutcomeKeepsLists ==
    [][\A f \in proxyView.fetches :
          (f \notin proxyView'.fetches /\ f.requestId # proxyView.requestIdRef)
              => /\ proxyView'.proxyDomains = proxyView.proxyDomains
                 /\ proxyView'.proxyIPs = proxyView.proxyIPs]_vars

\* C30 (as stated): whenever the filtered list is non-empty the page lies
\* between 1 and totalPages, so the slice that is shown is never empty.
C30_PageWithinTotalPages ==
    (pager.mounted /\ FilteredLength(pager) > 0) =>
        /\ 1 <= pager.page
        /\ pager.page <= TotalPages(pager)
        /\ PaginatedLength(pager) > 0

====
